---- MODULE Spec2Model ----
(***************************************************************************)
(* Consensus voting engine of hub-nexus-cortex: core/consensus.py (vote),  *)
(* core/model_manager.py (generate) and core/heavy_gate.py (HeavyGate).    *)
(*                                                                         *)
(* Time is counted in abstract ticks.  Every timer is a countdown that the *)
(* Tick action decrements; a timer that reached 0 must be handled before   *)
(* time advances again.  Strings are sequences of tokens (model names are  *)
(* sequences of characters) so that prefix and substring tests are         *)
(* computed as the code computes them.                                     *)
(***************************************************************************)
EXTENDS Integers, Sequences, FiniteSets, TLC

(***************************************************************************)
(* Bounds of the model.                                                    *)
(***************************************************************************)
MaxCommittee == 2
MaxQueries == 3

(***************************************************************************)
(* Program constants (time constants scaled to ticks).                     *)
(***************************************************************************)
max_heavy == 1
max_retries == 1
BackoffUnit == 1
ConductorTimeout == 2
CACHE_TTL == 3600
MAX_SCAN == 2

Conductor == 0
Members == 1..MaxCommittee
Tasks == {Conductor} \cup Members

(***************************************************************************)
(* Model names, as sequences of characters.                                *)
(***************************************************************************)
ModelNames ==
  << <<"Q","w","e","n","3","2","B">>,
     <<"l","l","a","m","a","7","0","b">>,
     <<"p","h","i","3">> >>
ModelIds == 1..Len(ModelNames)

LowerChar(c) ==
  CASE c = "Q" -> "q"
    [] c = "B" -> "b"
    [] c = "C" -> "c"
    [] c = "D" -> "d"
    [] c = "F" -> "f"
    [] c = "I" -> "i"
    [] c = "N" -> "n"
    [] c = "O" -> "o"
    [] c = "P" -> "p"
    [] c = "R" -> "r"
    [] c = "T" -> "t"
    [] c = "U" -> "u"
    [] c = "E_acute" -> "e_acute"
    [] OTHER -> c

lower(s) == [i \in 1..Len(s) |-> LowerChar(s[i])]

\* Python's `needle in hay` on strings.
Contains(hay, needle) ==
  \E i \in 0..(Len(hay) - Len(needle)) :
     \A j \in 1..Len(needle) : hay[i + j] = needle[j]

HEAVY_HINTS ==
  { <<"3","2","b">>, <<"7","0","b">>, <<"7","2","b">>,
    <<"q","w","e","n","3","2","b">>,
    <<"m","i","x","t","r","a","l","-","8","x","7","b">> }

is_heavy_model(name) == \E h \in HEAVY_HINTS : Contains(lower(name), h)

_is_heavy(model) ==
  \/ Contains(lower(model), <<"3","2","b">>)
  \/ Contains(lower(model), <<"q","w","e","n","3","2","b">>)

\* The two classifications of the model names of the model, computed once.
gate_heavy == [m \in ModelIds |-> is_heavy_model(ModelNames[m])]
vote_heavy == [m \in ModelIds |-> _is_heavy(ModelNames[m])]

(***************************************************************************)
(* Texts returned by the adapter, as sequences of tokens.                  *)
(***************************************************************************)
ResponseText(t) == <<"reponse", ToString(t)>>
ErrorDataText == <<"[", "ERROR", "]", " ", "HTTP_500">>
ExceptionErr == <<"ERROR", " ", "boom">>
TimeoutErr(timeout_s) == <<"TIMEOUT_", ToString(timeout_s), "s">>
Bracket(last_err) == <<"[">> \o last_err \o <<"]">>

\* text.startswith("[ERROR")
StartsWithError(text) == Len(text) >= 2 /\ text[1] = "[" /\ text[2] = "ERROR"

NoText == <<>>

VARIABLES
  \* heavy gate: asyncio.Semaphore
  semValue,      \* Semaphore._value
  waiters,       \* Semaphore._waiters, FIFO of task ids
  woken,         \* woken[t]: the waiter future of t has its result set
  \* generate(), one instance per task
  pc,            \* position of the task
  tModel,        \* model id the task calls (0: none)
  tTimeout,      \* timeout_s of the call
  attempt,       \* loop variable of generate
  last_err,      \* last_err of generate
  timer,         \* countdown of the HTTP timeout or of the backoff sleep
  cancelReq,     \* Task.cancel() was called and not yet delivered
  retval,        \* text returned by generate
  \* vote()
  cfg,           \* the mode configuration read from config_path
  vpc,           \* position of vote
  results,       \* results
  pending,       \* pending
  vtimer,        \* countdown of the timeout of the current asyncio.wait
  elapsed,       \* time.time() - start
  out,           \* out
  cache,         \* the entry stored under the exact key ck
  phaseLog,      \* history: the waits that returned, with the tasks each collected
  cache_ttl,     \* the TTL the entry was stored with (0: no entry)
  _client,       \* cache._client is a connected client (FALSE: None)
  load,          \* what _load_mode_cfg finds at config_path during this call
  warmed,        \* the models the running prewarm sent a request for
  exc,           \* the exception vote raised ("none": no exception)
  \* apps/orchestrator/cache_semantic.py
  sem_store,     \* the entries under "cache:*", by query
  sem_result,    \* the value returned by the last get_from_cache
  sem_call,      \* history: the last call of the semantic cache, the exception
                 \* raised inside it and whether the call raised
  rt_call,       \* the last call of the router and of the fusion functions:
                 \* the function and its arguments
  rt_ret,        \* the value that call returned
  cv,            \* two concurrent calls of vote for one key: the position
                 \* and the outcome of each
  mem            \* the memories table of the companion, and its clock

gateVars == <<semValue, waiters, woken>>
genVars == <<pc, tModel, tTimeout, attempt, last_err, timer, cancelReq, retval>>
cacheVars == <<cache, cache_ttl, _client>>
voteVars == <<cfg, vpc, results, pending, vtimer, elapsed, out, phaseLog,
              load, warmed, exc, cacheVars>>
semVars == <<sem_store, sem_result, sem_call>>
routerVars == <<rt_call, rt_ret>>
appVars == <<cv, mem>>
vars == <<gateVars, genVars, voteVars, semVars, routerVars, appVars>>

(***************************************************************************)
(* asyncio.Semaphore, as used by HeavyGate.  A gate state is a record      *)
(* [value, woken]; the queue of waiters is kept apart.  The future of a    *)
(* waiter is done when it was woken, or cancelled when Task.cancel()       *)
(* reached the task while it was still waiting.                            *)
(***************************************************************************)
FutCancelled(w, wk, creq) == creq[w] /\ ~wk[w]
FutDone(w, wk, creq) == wk[w] \/ FutCancelled(w, wk, creq)

\* A semaphore whose acquire only looks at the queue, not at the counter.
locked_ignores_value(val, ws, wk, creq) ==
  \E i \in 1..Len(ws) : ~FutCancelled(ws[i], wk, creq)

\* Semaphore.locked()
locked(val, ws, wk, creq) ==
  val = 0 \/ \E i \in 1..Len(ws) : ~FutCancelled(ws[i], wk, creq)

\* A release after which no waiter is woken.
wake_up_nobody(g, ws, creq) == g

\* Semaphore._wake_up_next(): the first waiter whose future is not done
\* takes the permit.
wake_up_next(g, ws, creq) ==
  LET cand == {i \in 1..Len(ws) : ~FutDone(ws[i], g.woken, creq)} IN
  IF cand = {} THEN g
  ELSE LET i == CHOOSE k \in cand : \A l \in cand : k <= l IN
       [value |-> g.value - 1, woken |-> [g.woken EXCEPT ![ws[i]] = TRUE]]

\* A release that gives nothing back.
release_nothing(g, ws, creq) == g

\* Semaphore.release()
release(g, ws, creq) ==
  wake_up_next([g EXCEPT !.value = g.value + 1], ws, creq)

Remove(ws, t) == SelectSeq(ws, LAMBDA x : x # t)

Gate == [value |-> semValue, woken |-> woken]

\* A section that keeps its permit when it is left.
section_exit_keeps_permit(t) == Gate

\* Leaving HeavyGate.section(model): the permit is given back for a heavy
\* model, nothing happens for a light one.
section_exit(t) ==
  IF gate_heavy[tModel[t]]
  THEN release(Gate, waiters, cancelReq)
  ELSE Gate

(***************************************************************************)
(* generate(): one attempt enters the section and posts the request.       *)
(***************************************************************************)
\* async with heavy_gate.section(model): return await _one_call()
\* The caller either starts its HTTP call or joins the queue of waiters.
\* The result is the new position of the caller and the new gate state.
section_enter(t, model, tmo, val, ws, wk, creq) ==
  IF gate_heavy[model]
  THEN IF ~locked(val, ws, wk, creq)
       THEN [pc |-> "http", timer |-> tmo, value |-> val - 1, waiters |-> ws]
       ELSE [pc |-> "waiting", timer |-> 0, value |-> val, waiters |-> Append(ws, t)]
  ELSE [pc |-> "http", timer |-> tmo, value |-> val, waiters |-> ws]

EnterSection(t, att) ==
  LET e == section_enter(t, tModel[t], tTimeout[t], semValue, waiters, woken, cancelReq)
  IN /\ attempt' = [attempt EXCEPT ![t] = att]
     /\ pc' = [pc EXCEPT ![t] = e.pc]
     /\ timer' = [timer EXCEPT ![t] = e.timer]
     /\ semValue' = e.value
     /\ waiters' = e.waiters
     /\ UNCHANGED woken

\* The task created by create_task (or the inline call) runs its first
\* attempt.
TaskStart(t) ==
  /\ pc[t] = "created"
  /\ ~cancelReq[t]
  /\ EnterSection(t, 0)
  /\ UNCHANGED <<tModel, tTimeout, last_err, cancelReq, retval, voteVars, semVars, routerVars, appVars>>

\* Semaphore.acquire() after `await fut`: the woken waiter leaves the queue
\* and starts its HTTP call.
GateResume(t) ==
  /\ pc[t] = "waiting"
  /\ woken[t]
  /\ ~cancelReq[t]
  /\ LET ws == Remove(waiters, t)
         g0 == [value |-> semValue, woken |-> [woken EXCEPT ![t] = FALSE]]
         g1 == IF g0.value > 0 THEN wake_up_next(g0, ws, cancelReq) ELSE g0
     IN /\ waiters' = ws
        /\ semValue' = g1.value
        /\ woken' = g1.woken
  /\ pc' = [pc EXCEPT ![t] = "http"]
  /\ timer' = [timer EXCEPT ![t] = tTimeout[t]]
  /\ UNCHANGED <<tModel, tTimeout, attempt, last_err, cancelReq, retval, voteVars, semVars,
                 routerVars, appVars>>

\* The event loop runs the callbacks that are ready (a task that was just
\* created, woken by a release, or cancelled) before it looks at the
\* network and at the timers.
Urgent ==
  \E t \in Tasks :
     \/ pc[t] = "created"
     \/ pc[t] = "waiting" /\ woken[t]
     \/ cancelReq[t]

\* generate() returns `text`.
Return(t, text) ==
  /\ pc' = [pc EXCEPT ![t] = "done"]
  /\ retval' = [retval EXCEPT ![t] = text]
  /\ timer' = [timer EXCEPT ![t] = 0]
  /\ attempt' = [attempt EXCEPT ![t] = 0]
  /\ last_err' = [last_err EXCEPT ![t] = NoText]

\* A retry loop that sleeps after every failed attempt, the last included.
AttemptFailed_always_sleeps(t, err) ==
  /\ last_err' = [last_err EXCEPT ![t] = err]
  /\ pc' = [pc EXCEPT ![t] = "backoff"]
  /\ timer' = [timer EXCEPT ![t] = BackoffUnit * (attempt[t] + 1)]
  /\ UNCHANGED <<retval, attempt>>

\* The attempt failed with last_err = err: back off and retry, or return
\* the bracketed error.
AttemptFailed(t, err) ==
  IF attempt[t] < max_retries
  THEN /\ last_err' = [last_err EXCEPT ![t] = err]
       /\ pc' = [pc EXCEPT ![t] = "backoff"]
       /\ timer' = [timer EXCEPT ![t] = BackoffUnit * (attempt[t] + 1)]
       /\ UNCHANGED <<retval, attempt>>
  ELSE Return(t, Bracket(err))

\* _one_call: the backend answered 200 with a "response" field.
HttpResponse(t) ==
  /\ pc[t] = "http"
  /\ ~Urgent
  /\ LET g == section_exit(t) IN semValue' = g.value /\ woken' = g.woken
  /\ Return(t, ResponseText(t))
  /\ UNCHANGED <<waiters, tModel, tTimeout, cancelReq, voteVars, semVars, routerVars, appVars>>

\* _one_call: the backend answered with a non-200 status; the error text is
\* returned as data, no exception is raised.
HttpErrorStatus(t) ==
  /\ pc[t] = "http"
  /\ ~Urgent
  /\ LET g == section_exit(t) IN semValue' = g.value /\ woken' = g.woken
  /\ Return(t, ErrorDataText)
  /\ UNCHANGED <<waiters, tModel, tTimeout, cancelReq, voteVars, semVars, routerVars, appVars>>

\* An except clause list that only has `except asyncio.TimeoutError`.
except_clause_timeout_only(kind) ==
  IF kind = "TimeoutError" THEN "timeout" ELSE "propagate"

\* The except clause of the retry loop that catches an exception of class
\* `kind`: asyncio.TimeoutError, then Exception; a BaseException that is not
\* an Exception (CancelledError) is not caught.
except_clause(kind) ==
  CASE kind = "TimeoutError" -> "timeout"
    [] kind \in {"ClientError", "Exception"} -> "error"
    [] OTHER -> "propagate"

\* `await _guarded()` raised an exception of class `kind`.
AttemptRaised(t, kind) ==
  CASE except_clause(kind) = "timeout" -> AttemptFailed(t, TimeoutErr(tTimeout[t]))
    [] except_clause(kind) = "error" -> AttemptFailed(t, ExceptionErr)
    [] OTHER -> /\ pc' = [pc EXCEPT ![t] = "raised"]
                /\ timer' = [timer EXCEPT ![t] = 0]
                /\ UNCHANGED <<retval, attempt, last_err>>

\* _post_json raised (connection error): except Exception.
HttpException(t) ==
  /\ pc[t] = "http"
  /\ ~Urgent
  /\ LET g == section_exit(t) IN semValue' = g.value /\ woken' = g.woken
  /\ AttemptRaised(t, "ClientError")
  /\ UNCHANGED <<waiters, tModel, tTimeout, cancelReq, voteVars, semVars, routerVars, appVars>>

\* aiohttp's total timeout expired: except asyncio.TimeoutError.
HttpTimeout(t) ==
  /\ pc[t] = "http"
  /\ ~Urgent
  /\ timer[t] = 0
  /\ LET g == section_exit(t) IN semValue' = g.value /\ woken' = g.woken
  /\ AttemptRaised(t, "TimeoutError")
  /\ UNCHANGED <<waiters, tModel, tTimeout, cancelReq, voteVars, semVars, routerVars, appVars>>

\* await asyncio.sleep(1.5 * (attempt + 1)) is over: next attempt.
BackoffDone(t) ==
  /\ pc[t] = "backoff"
  /\ ~Urgent
  /\ timer[t] = 0
  /\ EnterSection(t, attempt[t] + 1)
  /\ UNCHANGED <<tModel, tTimeout, last_err, cancelReq, retval, voteVars, semVars, routerVars, appVars>>

\* CancelledError is delivered at the await the task is suspended on; the
\* context managers on the way out release what the task holds.  last_err
\* keeps what the cancelled call had recorded.
HandleCancel(t) ==
  /\ cancelReq[t]
  /\ pc[t] \in {"created", "waiting", "http", "backoff"}
  /\ CASE pc[t] = "http" ->
            /\ LET g == section_exit(t) IN semValue' = g.value /\ woken' = g.woken
            /\ UNCHANGED waiters
       [] pc[t] = "waiting" ->
            LET ws == Remove(waiters, t)
                creq == [cancelReq EXCEPT ![t] = FALSE]
                g0 == [value |-> semValue, woken |-> [woken EXCEPT ![t] = FALSE]]
                g1 == IF woken[t] THEN release(g0, ws, creq) ELSE g0
            IN /\ waiters' = ws
               /\ semValue' = g1.value
               /\ woken' = g1.woken
       [] OTHER -> UNCHANGED <<semValue, waiters, woken>>
  /\ pc' = [pc EXCEPT ![t] = "cancelled"]
  /\ cancelReq' = [cancelReq EXCEPT ![t] = FALSE]
  /\ timer' = [timer EXCEPT ![t] = 0]
  /\ attempt' = [attempt EXCEPT ![t] = 0]
  /\ UNCHANGED <<tModel, tTimeout, last_err, retval, voteVars, semVars, routerVars, appVars>>

\* A CLOSED step that cancels nothing.
RequestCancel_none(creq, ts) == creq

\* Task.cancel() on a task that is not finished.
RequestCancel(creq, ts) == [t \in Tasks |-> IF t \in ts THEN TRUE ELSE creq[t]]

(***************************************************************************)
(* vote()                                                                  *)
(***************************************************************************)
NoOutcome == [status |-> "none"]
TimeoutAnswer == <<"Mode precision: 32B indisponible.">>

Min(a, b) == IF a < b THEN a ELSE b
Max(a, b) == IF a > b THEN a ELSE b

Committee == 1..Len(cfg.committee)

\* The list built from a set of tasks (in ascending order of task id).
RECURSIVE SeqOfSet(_)
SeqOfSet(S) ==
  IF S = {} THEN <<>>
  ELSE LET m == CHOOSE x \in S : \A y \in S : x <= y
       IN <<m>> \o SeqOfSet(S \ {m})

\* Every answer counts as a success.
success_always(text) == TRUE

\* "success": not text.startswith("[ERROR")
success_of(text) == ~StartsWithError(text)

\* The dict returned by ask(m); the role of member t is its position.
ask_result(t) ==
  [role |-> t, model |-> tModel[t], answer |-> retval[t],
   success |-> success_of(retval[t])]

\* [t.result() for t in done if not t.cancelled() and not t.exception()]
collect(done) ==
  LET ok == SeqOfSet({t \in done : pc[t] = "done"})
  IN [i \in 1..Len(ok) |-> ask_result(ok[i])]

\* A heavy test that never finds a heavy success.
have_heavy_never(rs) == FALSE

have_heavy(rs) ==
  LET models_ok == {rs[i].model : i \in {j \in 1..Len(rs) : rs[j].success}}
      heavy_in_committee ==
        {cfg.committee[i] : i \in {j \in Committee : vote_heavy[cfg.committee[j]]}}
  IN \E h \in heavy_in_committee : h \in models_ok

Finished(t) == pc[t] \in {"done", "cancelled", "raised"}

\* A wait that reports every finished task of the committee, also those
\* already collected.
done_of_committee(fs) == {t \in Committee : Finished(t)}

\* The tasks of `fs` that asyncio.wait reports as done when it returns.
done_of(fs) == {t \in fs : Finished(t)}

\* The condition on which the current asyncio.wait returns.
WaitOver ==
  \/ vtimer = 0
  \/ vpc = "soft" /\ \E t \in pending : Finished(t)
  \/ vpc \in {"grace", "hard"} /\ \A t \in pending : Finished(t)

\* A confidence that always starts from the heavy base.
confidence_heavy_base(valid) == Min(95, 70 + 15)

\* confidence, in hundredths
confidence_of(valid) ==
  LET base == IF \E i \in 1..Len(valid) : vote_heavy[valid[i].model]
              THEN 70 ELSE 55
  IN Min(95, base + 15)

(***************************************************************************)
(* core/cache.py: the exact cache.  `ping` and `op` are the answers of the *)
(* backend: whether it answers the ping of a new connection, and whether   *)
(* it answers the command.                                                 *)
(***************************************************************************)
\* _cli(): the client, connected on first use; None when the ping fails.
_cli(client, ping) == IF client THEN TRUE ELSE ping

\* A lookup that never finds the entry.
cache_get_misses(client, ping, op, entry) ==
  [client |-> _cli(client, ping), raised |-> FALSE, value |-> NoOutcome]

\* get(key): None without a client; c.get raises when the backend fails.
cache_get(client, ping, op, entry) ==
  LET c == _cli(client, ping)
  IN IF ~c THEN [client |-> c, raised |-> FALSE, value |-> NoOutcome]
     ELSE IF ~op THEN [client |-> c, raised |-> TRUE, value |-> NoOutcome]
     ELSE [client |-> c, raised |-> FALSE, value |-> entry]

\* A store that keeps entries for one tick only.
set_ttl_short(ttl) == 1

\* ttl or CACHE_TTL (0: no ttl given)
set_ttl(ttl) == IF ttl = 0 THEN CACHE_TTL ELSE ttl

\* set(key, value, ttl): False without a client; c.setex raises when the
\* backend fails.
cache_set(client, ping, op, entry, entry_ttl, value, ttl) ==
  LET c == _cli(client, ping)
  IN IF ~c
     THEN [client |-> c, raised |-> FALSE, entry |-> entry, ttl |-> entry_ttl]
     ELSE IF ~op
     THEN [client |-> c, raised |-> TRUE, entry |-> entry, ttl |-> entry_ttl]
     ELSE [client |-> c, raised |-> FALSE, entry |-> value, ttl |-> set_ttl(ttl)]

\* What _load_mode_cfg can find at config_path.
Loads == {"ok", "unknown_mode", "no_file"}

\* A loader that accepts whatever it finds.
_load_mode_cfg_lenient(found) == "none"

\* The exception _load_mode_cfg raises ("none": it returns the mode).
_load_mode_cfg(found) ==
  CASE found = "unknown_mode" -> "ValueError: Mode inconnu"
    [] found = "no_file" -> "FileNotFoundError"
    [] OTHER -> "none"

(***************************************************************************)
(* model_manager.prewarm                                                   *)
(***************************************************************************)
\* The orders in which a set can be iterated.
Orders(S) ==
  {o \in [1..Cardinality(S) -> S] : \A i, j \in 1..Cardinality(S) : i # j => o[i] # o[j]}

\* A loop that goes on with the next model after a failed request.
prewarm_loop_continues(order, fails) == {order[i] : i \in 1..Len(order)}

\* for m in set(models): await session.post(...), inside one try: the models
\* a request was sent for, when the requests for `fails` raise.
RECURSIVE prewarm_loop(_, _)
prewarm_loop(order, fails) ==
  IF order = <<>> THEN {}
  ELSE IF Head(order) \in fails THEN {Head(order)}
  ELSE {Head(order)} \cup prewarm_loop(Tail(order), fails)

\* except Exception: the classes of exception prewarm swallows.
prewarm_catches(kind) == kind \in {"TimeoutError", "ClientError", "Exception"}

\* vote(prompt, context, config_path, mode) is called, once the tasks of the
\* previous call are finished; the locals of the new call are fresh.
VoteCall ==
  /\ vpc \in {"idle", "returned", "raised"}
  /\ \A t \in Tasks : pc[t] \in {"idle", "done", "cancelled", "raised"}
  /\ vpc' = "cache_get"
  /\ out' = NoOutcome
  /\ results' = <<>>
  /\ pending' = {}
  /\ vtimer' = 0
  /\ elapsed' = 0
  /\ phaseLog' = <<>>
  /\ pc' = [t \in Tasks |-> "idle"]
  /\ tModel' = [t \in Tasks |-> 0]
  /\ tTimeout' = [t \in Tasks |-> 0]
  /\ last_err' = [t \in Tasks |-> NoText]
  /\ retval' = [t \in Tasks |-> NoText]
  /\ load' \in Loads
  /\ warmed' = {}
  /\ exc' = "none"
  /\ UNCHANGED <<gateVars, attempt, timer, cancelReq, cfg, cacheVars, semVars, routerVars, appVars>>

\* await cache_get(ck) answered: a hit is returned at once; on a miss the
\* configuration is loaded and prewarm is awaited.
CacheGet ==
  /\ vpc = "cache_get"
  /\ ~Urgent
  /\ \E ping, op \in BOOLEAN :
       LET g == cache_get(_client, ping, op, cache)
       IN /\ _client' = g.client
          /\ IF g.raised
             THEN /\ vpc' = "raised"
                  /\ exc' = "ConnectionError"
                  /\ UNCHANGED out
             ELSE IF g.value # NoOutcome
             THEN /\ out' = [cache_hit |-> TRUE] @@ g.value
                  /\ vpc' = "returned"
                  /\ UNCHANGED exc
             ELSE /\ exc' = _load_mode_cfg(load)
                  /\ vpc' = IF _load_mode_cfg(load) = "none" THEN "prewarm" ELSE "raised"
                  /\ UNCHANGED out
  /\ UNCHANGED <<gateVars, genVars, cfg, results, pending, vtimer, elapsed, phaseLog,
                 load, warmed, cache, cache_ttl, semVars, routerVars, appVars>>

\* await prewarm(models of the committee) is over: the ping of /api/tags,
\* then one request per unique model, in the iteration order of the set,
\* until a request raises.
Prewarm ==
  /\ vpc = "prewarm"
  /\ ~Urgent
  /\ LET models == {cfg.committee[i] : i \in Committee}
     IN \E ping_ok \in BOOLEAN, order \in Orders(models), fails \in SUBSET models,
           kind \in {"ClientError", "TimeoutError"} :
          LET sent == IF ping_ok THEN prewarm_loop(order, fails) ELSE {}
              failed == ~ping_ok \/ sent \cap fails # {}
          IN /\ warmed' = sent
             /\ IF failed /\ ~prewarm_catches(kind)
                THEN vpc' = "raised" /\ exc' = kind
                ELSE vpc' = "fanout" /\ UNCHANGED exc
  /\ UNCHANGED <<gateVars, genVars, cfg, results, pending, vtimer, elapsed, out, phaseLog,
                 load, cacheVars, semVars, routerVars, appVars>>

\* prewarm returned: one task per member is created, the clock starts and
\* vote awaits the first asyncio.wait (SOFT).
FanOut ==
  /\ vpc = "fanout"
  /\ ~Urgent
  /\ pc' = [t \in Tasks |-> IF t \in Committee THEN "created" ELSE "idle"]
  /\ tModel' = [t \in Tasks |-> IF t \in Committee THEN cfg.committee[t] ELSE 0]
  /\ tTimeout' = [t \in Tasks |-> IF t \in Committee THEN cfg.timeout_s ELSE 0]
  /\ attempt' = [t \in Tasks |-> 0]
  /\ last_err' = [t \in Tasks |-> NoText]
  /\ retval' = [t \in Tasks |-> NoText]
  /\ timer' = [t \in Tasks |-> 0]
  /\ cancelReq' = [t \in Tasks |-> FALSE]
  /\ results' = <<>>
  /\ pending' = Committee
  /\ vpc' = "soft"
  /\ vtimer' = cfg.soft
  /\ elapsed' = 0
  /\ phaseLog' = <<>>
  /\ warmed' = {}
  /\ UNCHANGED <<gateVars, cfg, out, load, exc, cacheVars, semVars, routerVars, appVars>>

\* await asyncio.wait(pending, timeout=tmo): asyncio.wait raises ValueError
\* on an empty set of tasks.
StartWait(res, pend, phase, tmo) ==
  /\ results' = res
  /\ pending' = pend
  /\ IF pend = {}
     THEN vpc' = "raised" /\ vtimer' = 0 /\ exc' = "ValueError: Set of Tasks/Futures is empty."
     ELSE vpc' = phase /\ vtimer' = tmo /\ UNCHANGED exc
  /\ UNCHANGED <<gateVars, genVars, cfg, elapsed, out, load, warmed, cacheVars, semVars, routerVars, appVars>>

Outcome(status, answer, votes, conf) ==
  [status |-> status, final_answer |-> answer, votes |-> votes,
   confidence |-> conf, elapsed_s |-> elapsed, mode |-> cfg.mode]

\* A shortcut taken whenever exactly one answer is valid.
single_valid(valid, committee) == Len(valid) = 1

\* if len(valid) == 1 and len(committee) == 1
single_member(valid, committee) == Len(valid) = 1 /\ Len(committee) = 1

\* CLOSED: the pending tasks are cancelled; then the timeout outcome, the
\* single-member shortcut, or the call of the conductor.
Closed(res, pend) ==
  LET creq == RequestCancel(cancelReq, pend)
      valid == SelectSeq(res, LAMBDA r : r.success)
  IN /\ results' = res
     /\ pending' = pend
     /\ vtimer' = 0
     /\ cancelReq' = creq
     /\ IF cfg.require_heavy /\ ~have_heavy(res)
        THEN /\ out' = Outcome("timeout", TimeoutAnswer, res, 0)
             /\ vpc' = "cache_set"
             /\ UNCHANGED <<gateVars, pc, tModel, tTimeout, attempt, last_err, timer, retval>>
        ELSE IF single_member(valid, cfg.committee)
        THEN /\ out' = Outcome("ok", valid[1].answer, res, 90)
             /\ vpc' = "cache_set"
             /\ UNCHANGED <<gateVars, pc, tModel, tTimeout, attempt, last_err, timer, retval>>
        ELSE LET e == section_enter(Conductor, cfg.conductor, ConductorTimeout,
                                    semValue, waiters, woken, creq)
             IN /\ vpc' = "conductor"
                /\ pc' = [pc EXCEPT ![Conductor] = e.pc]
                /\ timer' = [timer EXCEPT ![Conductor] = e.timer]
                /\ semValue' = e.value
                /\ waiters' = e.waiters
                /\ tModel' = [tModel EXCEPT ![Conductor] = cfg.conductor]
                /\ tTimeout' = [tTimeout EXCEPT ![Conductor] = ConductorTimeout]
                /\ attempt' = [attempt EXCEPT ![Conductor] = 0]
                /\ UNCHANGED <<woken, last_err, retval, out>>
     /\ UNCHANGED <<cfg, elapsed, load, warmed, exc, cacheVars, semVars, routerVars, appVars>>

\* remain = max(0, cfg["hard"] - (time.time() - start))
remain(hard, el) == Max(0, hard - el)

\* The SOFT wait (FIRST_COMPLETED, timeout soft) returned.
SoftWake ==
  /\ vpc = "soft"
  /\ WaitOver
  /\ phaseLog' = Append(phaseLog, [phase |-> "SOFT", got |-> done_of(pending)])
  /\ LET done == done_of(pending)
         res == results \o collect(done)
         pend == pending \ done
     IN IF cfg.require_heavy /\ ~have_heavy(res)
        THEN StartWait(res, pend, "grace", cfg.grace)
        ELSE Closed(res, pend)

\* The GRACE wait (ALL_COMPLETED, timeout grace) returned.
GraceWake ==
  /\ vpc = "grace"
  /\ WaitOver
  /\ phaseLog' = Append(phaseLog, [phase |-> "GRACE", got |-> done_of(pending)])
  /\ LET done == done_of(pending)
         res == results \o collect(done)
         pend == pending \ done
     IN IF cfg.require_heavy /\ ~have_heavy(res)
        THEN StartWait(res, pend, "hard", remain(cfg.hard, elapsed))
        ELSE Closed(res, pend)

\* The HARD wait (ALL_COMPLETED, timeout hard - elapsed) returned.
HardWake ==
  /\ vpc = "hard"
  /\ WaitOver
  /\ phaseLog' = Append(phaseLog, [phase |-> "HARD", got |-> done_of(pending)])
  /\ LET done == done_of(pending)
     IN Closed(results \o collect(done), pending \ done)

\* The conductor's generate returned the synthesis.
ConductorDone ==
  /\ vpc = "conductor"
  /\ pc[Conductor] = "done"
  /\ LET valid == SelectSeq(results, LAMBDA r : r.success)
     IN out' = Outcome("ok", retval[Conductor], results, confidence_of(valid))
  /\ vpc' = "cache_set"
  /\ UNCHANGED <<gateVars, genVars, cfg, results, pending, vtimer, elapsed, phaseLog,
                 load, warmed, exc, cacheVars, semVars, routerVars, appVars>>

\* await cache_set(ck, out) returned; out["cache_hit"] = False; return out.
CacheSet ==
  /\ vpc = "cache_set"
  /\ ~Urgent
  /\ \E ping, op \in BOOLEAN :
       LET r == cache_set(_client, ping, op, cache, cache_ttl, out, 0)
       IN /\ _client' = r.client
          /\ cache' = r.entry
          /\ cache_ttl' = r.ttl
          /\ IF r.raised
             THEN vpc' = "raised" /\ exc' = "ConnectionError" /\ UNCHANGED out
             ELSE vpc' = "returned" /\ out' = [cache_hit |-> FALSE] @@ out /\ UNCHANGED exc
  /\ UNCHANGED <<gateVars, genVars, cfg, results, pending, vtimer, elapsed, phaseLog,
                 load, warmed, semVars, routerVars, appVars>>

\* The TTL of the stored entry runs out, between two calls of vote.
TTLExpires ==
  /\ vpc \in {"idle", "returned", "raised"}
  /\ cache # NoOutcome
  /\ cache' = NoOutcome
  /\ cache_ttl' = 0
  /\ vpc' = "idle"
  /\ out' = NoOutcome
  /\ exc' = "none"
  /\ UNCHANGED <<gateVars, genVars, cfg, results, pending, vtimer, elapsed, phaseLog,
                 load, warmed, _client, semVars, routerVars, appVars>>

(***************************************************************************)
(* Time.                                                                   *)
(***************************************************************************)
Timed(t) == pc[t] \in {"http", "backoff"}
Waiting == vpc \in {"soft", "grace", "hard"}

\* Computation takes no time: a task or a vote that can run without waiting
\* for the backend or for a timer runs before time advances.
Ready ==
  \/ vpc \in {"cache_get", "prewarm", "fanout", "cache_set"}
  \/ vpc = "conductor" /\ pc[Conductor] = "done"
  \/ Waiting /\ WaitOver
  \/ Urgent

Tick ==
  /\ \A t \in Tasks : Timed(t) => timer[t] > 0
  /\ ~Ready
  /\ Waiting \/ \E t \in Tasks : Timed(t)
  /\ timer' = [t \in Tasks |-> IF Timed(t) THEN timer[t] - 1 ELSE timer[t]]
  /\ vtimer' = IF Waiting THEN vtimer - 1 ELSE vtimer
  /\ elapsed' = IF Waiting THEN elapsed + 1 ELSE elapsed
  /\ UNCHANGED <<gateVars, pc, tModel, tTimeout, attempt, last_err, cancelReq, retval,
                 cfg, vpc, results, pending, out, phaseLog,
                 load, warmed, exc, cacheVars, semVars, routerVars, appVars>>

(***************************************************************************)
(* One vote at a time, with every configuration of the bounded sets.       *)
(***************************************************************************)
\* The members of a committee are interchangeable: committees are taken up
\* to the order of their members.
Queries == 1..MaxQueries
NoEntry == [query |-> 0]
NoResult == [query |-> 0]
NoCall == [op |-> "none", failure |-> "none", raised |-> FALSE]
NoRouterCall == [op |-> "none"]
Voters == {"a", "b"}
NoVote == [pc |-> "idle", out |-> [status |-> "none"], hit |-> FALSE, duplicate |-> FALSE]
NoMemories == [rows |-> <<>>, seq |-> 0, now |-> 0, vaulted |-> {}, acted |-> {}]

Committees ==
  {c \in UNION {[1..n -> ModelIds] : n \in 1..MaxCommittee} :
     \A i \in 1..(Len(c) - 1) : c[i] <= c[i + 1]}
Deadlines == {[soft |-> 2, grace |-> 1, hard |-> 4]}
ConductorModels == {1, 3}

Configs ==
  {[committee |-> c, require_heavy |-> rh, soft |-> d.soft, grace |-> d.grace,
    hard |-> d.hard, timeout_s |-> 2, conductor |-> cm, mode |-> "precision"] :
     c \in Committees, rh \in BOOLEAN, d \in Deadlines, cm \in ConductorModels}

\* The state of the voting engine, of its adapter and of the caches when the
\* process starts.
InitProgram ==
  /\ semValue = max_heavy
  /\ waiters = <<>>
  /\ woken = [t \in Tasks |-> FALSE]
  /\ pc = [t \in Tasks |-> "idle"]
  /\ tModel = [t \in Tasks |-> 0]
  /\ tTimeout = [t \in Tasks |-> 0]
  /\ attempt = [t \in Tasks |-> 0]
  /\ last_err = [t \in Tasks |-> NoText]
  /\ timer = [t \in Tasks |-> 0]
  /\ cancelReq = [t \in Tasks |-> FALSE]
  /\ retval = [t \in Tasks |-> NoText]
  /\ cfg \in Configs
  /\ vpc = "idle"
  /\ results = <<>>
  /\ pending = {}
  /\ vtimer = 0
  /\ elapsed = 0
  /\ out = NoOutcome
  /\ cache = NoOutcome
  /\ phaseLog = <<>>
  /\ cache_ttl = 0
  /\ _client = FALSE
  /\ load = "ok"
  /\ warmed = {}
  /\ exc = "none"
  /\ sem_store = [q \in Queries |-> NoEntry]
  /\ sem_result = NoResult
  /\ sem_call = NoCall
  /\ cv = [v \in Voters |-> NoVote]
  /\ mem = NoMemories

Init ==
  /\ InitProgram
  /\ rt_call = NoRouterCall
  /\ rt_ret = NoRouterCall

TaskStep(t) ==
  \/ TaskStart(t)
  \/ GateResume(t)
  \/ HttpResponse(t)
  \/ HttpErrorStatus(t)
  \/ HttpException(t)
  \/ HttpTimeout(t)
  \/ BackoffDone(t)
  \/ HandleCancel(t)

Next ==
  \/ VoteCall
  \/ CacheGet
  \/ Prewarm
  \/ FanOut
  \/ SoftWake
  \/ GraceWake
  \/ HardWake
  \/ ConductorDone
  \/ CacheSet
  \/ TTLExpires
  \/ Tick
  \/ \E t \in Tasks : TaskStep(t)

Spec == Init /\ [][Next]_vars

(***************************************************************************)
(* The votes of a committee of two members (one heavy and one light, or   *)
(* two heavy ones), under several deadline configurations.                 *)
(***************************************************************************)
\* Deadlines with 0 < soft <= soft + grace <= hard.
DeadlineChoices ==
  {[soft |-> 2, grace |-> 1, hard |-> 4], [soft |-> 1, grace |-> 1, hard |-> 2],
   [soft |-> 1, grace |-> 2, hard |-> 4], [soft |-> 2, grace |-> 0, hard |-> 3],
   [soft |-> 1, grace |-> 0, hard |-> 1]}

InitDeadline ==
  /\ semValue = max_heavy
  /\ waiters = <<>>
  /\ woken = [t \in Tasks |-> FALSE]
  /\ pc = [t \in Tasks |-> "idle"]
  /\ tModel = [t \in Tasks |-> 0]
  /\ tTimeout = [t \in Tasks |-> 0]
  /\ attempt = [t \in Tasks |-> 0]
  /\ last_err = [t \in Tasks |-> NoText]
  /\ timer = [t \in Tasks |-> 0]
  /\ cancelReq = [t \in Tasks |-> FALSE]
  /\ retval = [t \in Tasks |-> NoText]
  /\ \E d \in DeadlineChoices, rh \in BOOLEAN, c \in {<<1, 3>>, <<1, 1>>} :
        cfg = [committee |-> c, require_heavy |-> rh, soft |-> d.soft,
               grace |-> d.grace, hard |-> d.hard, timeout_s |-> 2, conductor |-> 3,
               mode |-> "precision"]
  /\ vpc = "idle"
  /\ results = <<>>
  /\ pending = {}
  /\ vtimer = 0
  /\ elapsed = 0
  /\ out = NoOutcome
  /\ cache = NoOutcome
  /\ phaseLog = <<>>
  /\ cache_ttl = 0
  /\ _client = FALSE
  /\ load = "ok"
  /\ warmed = {}
  /\ exc = "none"
  /\ sem_store = [q \in Queries |-> NoEntry]
  /\ sem_result = NoResult
  /\ sem_call = NoCall
  /\ cv = [v \in Voters |-> NoVote]
  /\ mem = NoMemories
  /\ rt_call = NoRouterCall
  /\ rt_ret = NoRouterCall

SpecDeadline == InitDeadline /\ [][Next]_vars

(***************************************************************************)
(* The adapter and the gate alone: generate is called and cancelled by     *)
(* arbitrary callers (the tasks of any number of votes), at any time.      *)
(***************************************************************************)
\* Some caller awaits generate(model, ...) in task t.
CallGenerate(t, m) ==
  /\ pc[t] \in {"idle", "done", "cancelled", "raised"}
  /\ pc' = [pc EXCEPT ![t] = "created"]
  /\ tModel' = [tModel EXCEPT ![t] = m]
  /\ tTimeout' = [tTimeout EXCEPT ![t] = 1]
  /\ retval' = [retval EXCEPT ![t] = NoText]
  /\ last_err' = [last_err EXCEPT ![t] = NoText]
  /\ UNCHANGED <<gateVars, attempt, timer, cancelReq, voteVars, semVars, routerVars, appVars>>

\* t.cancel() on a task that is not finished.
CancelTask(t) ==
  /\ pc[t] \in {"created", "waiting", "http", "backoff"}
  /\ ~cancelReq[t]
  /\ cancelReq' = RequestCancel(cancelReq, {t})
  /\ UNCHANGED <<gateVars, pc, tModel, tTimeout, attempt, last_err, timer, retval, voteVars,
                 semVars, routerVars, appVars>>

InitGate ==
  /\ Init
  /\ cfg.committee = <<1>> /\ cfg.require_heavy /\ cfg.conductor = 1

NextGate ==
  \/ \E t \in Members, m \in ModelIds : CallGenerate(t, m)
  \/ \E t \in Members : CancelTask(t)
  \/ \E t \in Members : TaskStep(t)
  \/ Tick

SpecGate == InitGate /\ [][NextGate]_vars

(***************************************************************************)
(* Properties of the heavy gate.                                           *)
(***************************************************************************)
HeavyTask(t) == tModel[t] \in ModelIds /\ gate_heavy[tModel[t]]

\* The tasks inside HeavyGate.section of a heavy model.
InSection == {t \in Tasks : pc[t] = "http" /\ HeavyTask(t)}

\* The waiters a release has handed a permit to and that have not run yet.
Handed == {t \in Tasks : pc[t] = "waiting" /\ woken[t]}

\* C1: at most max_heavy tasks are inside HeavyGate.section of a heavy model
\* at the same time, whatever the model ids and the callers.
C1_MutualExclusion == Cardinality(InSection) <= max_heavy

\* Two calls on different heavy model ids contend: one is inside the
\* section and the other one waits for it.
C1_Witness ==
  \E t, u \in Tasks :
     /\ pc[t] = "http" /\ HeavyTask(t)
     /\ pc[u] = "waiting" /\ HeavyTask(u) /\ ~woken[u]
     /\ tModel[t] # tModel[u]

\* C2: every permit taken is given back on every exit path: the free permits
\* plus the permits held (inside a section, or handed to a woken waiter)
\* always add up to max_heavy, and when no task holds a permit the gate is
\* not locked, so that a later heavy call enters at once.
C2_PermitsReturned ==
  /\ semValue + Cardinality(InSection) + Cardinality(Handed) = max_heavy
  /\ (InSection = {} /\ Handed = {}) =>
        /\ semValue = max_heavy
        /\ ~locked(semValue, waiters, woken, cancelReq)

\* The only member, heavy, was cancelled at CLOSED while it held the permit:
\* its cancellation handed the permit to the heavy conductor that had queued
\* behind it.
C2_Witness ==
  /\ vpc = "conductor"
  /\ Len(cfg.committee) = 1
  /\ pc[1] = "cancelled" /\ HeavyTask(1)
  /\ HeavyTask(Conductor) /\ Conductor \in Handed

(***************************************************************************)
(* Properties of the outcome of vote.                                      *)
(***************************************************************************)
\* vote returned an outcome it computed itself (not a cache hit).
Computed == vpc = "returned" /\ ~out.cache_hit

\* The vote comes from a heavy model, in the sense of the heavy gate.
HeavyVote(v) == gate_heavy[v.model]

HeavySuccess(votes) == \E i \in 1..Len(votes) : votes[i].success /\ HeavyVote(votes[i])

\* C3: an outcome with status timeout implies that the mode requires a heavy
\* model and that no vote of the outcome is a successful vote of a heavy
\* model.
C3_TimeoutImplies ==
  (Computed /\ out.status = "timeout") =>
     (cfg.require_heavy /\ ~HeavySuccess(out.votes))

\* C4: when the mode requires a heavy model and no heavy member produced a
\* successful vote, vote returns the timeout outcome (confidence 0.0, the
\* fixed answer) and the conductor is not called.
C4_FailureOutcome ==
  ( /\ vpc \in {"returned", "raised"}
    /\ vpc = "returned" => ~out.cache_hit
    /\ cfg.require_heavy
    /\ ~HeavySuccess(results) )
  => ( /\ vpc = "returned"
       /\ out.status = "timeout"
       /\ out.confidence = 0
       /\ out.final_answer = TimeoutAnswer
       /\ pc[Conductor] = "idle" )

\* The text is a failure sentinel of the adapter: "[ERROR ...]" or
\* "[TIMEOUT_<s>s]".
IsSentinel(text) ==
  Len(text) >= 2 /\ text[1] = "[" /\ text[2] \in {"ERROR", "TIMEOUT_"}

\* C5: a vote whose answer is a failure sentinel of the adapter has
\* success = false, and so never counts as a heavy success.
C5_SentinelIsFailure ==
  \A i \in 1..Len(results) :
     IsSentinel(results[i].answer) =>
        (~results[i].success /\ ~have_heavy(<<results[i]>>))

\* The votes come from distinct members of the committee.
VotesOk(votes) ==
  /\ Len(votes) <= Len(cfg.committee)
  /\ \A i \in 1..Len(votes) : votes[i].role \in Committee
  /\ \A i, j \in 1..Len(votes) : i # j => votes[i].role # votes[j].role

\* C6: the votes list never has more than |committee| entries and no member
\* contributes more than one vote, whatever the order in which the tasks
\* complete across the SOFT, GRACE and HARD collection steps.
C6_VotesBounded ==
  /\ VotesOk(results)
  /\ out.status # "none" => VotesOk(out.votes)

\* One member was collected at SOFT and the other one at HARD, after a GRACE
\* wait that collected nothing.
C6_Witness ==
  /\ Computed
  /\ Len(phaseLog) = 3
  /\ phaseLog[1].got # {} /\ phaseLog[2].got = {} /\ phaseLog[3].got # {}
  /\ Len(out.votes) = 2

AllSucceeded ==
  /\ Len(out.votes) = Len(cfg.committee)
  /\ \A i \in 1..Len(out.votes) : out.votes[i].success

NoneHeavy == \A t \in Committee : ~gate_heavy[cfg.committee[t]]

\* C7 as claimed: if all members produce success=true and none is heavy, the
\* confidence is 0.70 for every committee size, one member included.
C7_Original ==
  (Computed /\ AllSucceeded /\ NoneHeavy) => out.confidence = 70

\* C7 as amended: if all members produce success=true, none is heavy, the
\* mode does not require a heavy model and the committee has at least two
\* members, the outcome is ok with confidence 0.70.
C7_Amended ==
  (Computed /\ AllSucceeded /\ NoneHeavy /\ ~cfg.require_heavy /\ Len(cfg.committee) >= 2)
     => (out.status = "ok" /\ out.confidence = 70)

C7_Witness ==
  /\ Computed /\ AllSucceeded /\ NoneHeavy
  /\ ~cfg.require_heavy /\ Len(cfg.committee) >= 2
  /\ out.confidence = 70

\* C8: if any successful vote of the outcome comes from a heavy model (32b,
\* 70b, 72b, mixtral-8x7b), the confidence is 0.85, for every committee size.
C8_HeavyConfidence ==
  (Computed /\ HeavySuccess(out.votes)) => out.confidence = 85

NotVoted(t) == \A i \in 1..Len(out.votes) : out.votes[i].role # t

\* No call of a member failed or timed out, and no member was still running
\* at the soft deadline: every vote is a genuine success, and a member
\* without a vote was cancelled before the soft deadline with no failed
\* attempt behind it.
AllCallsSucceedInTime ==
  /\ Computed
  /\ \A i \in 1..Len(out.votes) :
        out.votes[i].success /\ ~IsSentinel(out.votes[i].answer)
  /\ \A t \in Committee :
        NotVoted(t) => (last_err[t] = NoText /\ out.elapsed_s < cfg.soft)

CallFailed(t) ==
  \/ pc[t] = "done" /\ StartsWithError(retval[t])
  \/ pc[t] # "done" /\ last_err[t] = ExceptionErr

CallSucceeded(t) == pc[t] = "done" /\ ~IsSentinel(retval[t])

PartialFailure ==
  /\ Computed
  /\ ~cfg.require_heavy
  /\ \E t, u \in Committee : CallFailed(t) /\ CallSucceeded(u)

ReturnsOf(t) ==
  {ResponseText(t), ErrorDataText, Bracket(ExceptionErr),
   Bracket(TimeoutErr(tTimeout[t]))}

\* C15: generate never throws across its boundary: no task ends with an
\* exception other than its cancellation, and a task that is done returned
\* the answer or a sentinel "[ERROR ...]" / "[TIMEOUT_<s>s]".
C15_NeverThrows ==
  \A t \in Tasks :
     /\ pc[t] # "raised"
     /\ pc[t] = "done" => retval[t] \in ReturnsOf(t)

\* One call ended with the sentinel of an exception and another one with
\* the sentinel of a timeout.
C15_Witness ==
  \E t, u \in Tasks :
     /\ pc[t] = "done" /\ retval[t] = Bracket(ExceptionErr)
     /\ pc[u] = "done" /\ retval[u] = Bracket(TimeoutErr(tTimeout[u]))

\* C16: hard timeouts are not retried: no call backs off or runs a further
\* attempt after an attempt that timed out.
C16_TimeoutNotRetried ==
  \A t \in Tasks :
     pc[t] \in {"backoff", "waiting", "http"} => last_err[t] # TimeoutErr(tTimeout[t])

\* C17: generate makes at most max_retries + 1 attempts, stops at the first
\* attempt that returns a value, and sleeps 1.5 s times the attempt number
\* only between two attempts, never after the last one.
C17_Attempts ==
  /\ [](\A t \in Tasks :
          /\ attempt[t] \in 0..max_retries
          /\ pc[t] = "backoff" =>
               (attempt[t] < max_retries /\ timer[t] <= BackoffUnit * (attempt[t] + 1)))
  /\ [][\A t \in Tasks :
          /\ attempt'[t] > attempt[t] =>
               (pc[t] = "backoff" /\ timer[t] = 0 /\ attempt'[t] = attempt[t] + 1)
          /\ (pc'[t] = "backoff" /\ pc[t] # "backoff") =>
               ( /\ pc[t] = "http"
                 /\ timer'[t] = BackoffUnit * (attempt[t] + 1)
                 /\ last_err'[t] # NoText )
          /\ (retval'[t] # retval[t] /\ retval'[t] # NoText) => pc'[t] = "done"
       ]_vars

\* The second and last attempt of a call is running, after the backoff of
\* the first one.
C17_Witness ==
  \E t \in Tasks :
     pc[t] = "http" /\ attempt[t] = max_retries /\ last_err[t] # NoText

(***************************************************************************)
(* Properties of the exact cache, of the configuration load and of         *)
(* prewarm, in vote.                                                       *)
(***************************************************************************)
\* No task of this call of vote was created: no committee call and no
\* conductor call; and no prewarm request was sent.
NoAdapterCall == warmed = {} /\ \A t \in Tasks : pc[t] = "idle"

\* C11: with the cache backend available, while the entry of an earlier
\* vote is stored under the key (within its TTL), a vote that is past its
\* lookup has returned the stored outcome with cache_hit=true, without
\* prewarm, committee call or conductor call; the only other vote that can
\* be past its lookup is the one that has just stored the entry.
C11_CacheHit ==
  (cache # NoOutcome /\ vpc \notin {"idle", "cache_get"}) =>
     \/ vpc = "raised" /\ exc = "ConnectionError"
     \/ vpc = "returned" /\ ~out.cache_hit /\ out = [cache_hit |-> FALSE] @@ cache
     \/ /\ vpc = "returned"
        /\ out.cache_hit
        /\ out = [cache_hit |-> TRUE] @@ cache
        /\ NoAdapterCall

\* A vote returned the stored outcome of an earlier vote with two votes.
C11_Witness ==
  /\ vpc = "returned"
  /\ out.cache_hit
  /\ out.status = "ok" /\ Len(out.votes) = 2
  /\ NoAdapterCall

\* C12 as claimed: every outcome vote computes, ok or timeout, is in the
\* cache under the exact key, with the TTL CACHE_TTL, when vote returns it
\* with cache_hit=false.
C12_Original ==
  Computed => (out = [cache_hit |-> FALSE] @@ cache /\ cache_ttl = CACHE_TTL)

\* C12 as amended: every outcome vote computes and returns, ok or timeout,
\* is returned with cache_hit=false; when the cache client is connected the
\* outcome, synthesis included, is in the cache under the exact key with the
\* TTL CACHE_TTL when vote returns; when the backend cannot be reached
\* nothing is stored.
C12_Amended ==
  Computed =>
     /\ ~out.cache_hit
     /\ out.status \in {"ok", "timeout"}
     /\ _client => (out = [cache_hit |-> FALSE] @@ cache /\ cache_ttl = CACHE_TTL)
     /\ ~_client => (cache = NoOutcome /\ cache_ttl = 0)

\* A timeout outcome was stored and returned.
C12_Witness ==
  /\ Computed
  /\ out.status = "timeout"
  /\ out = [cache_hit |-> FALSE] @@ cache
  /\ cache_ttl = CACHE_TTL

\* C13: a failure of the cache backend never aborts a vote: vote does not
\* raise the error of a cache operation.
C13_CacheFailureSilent == ~(vpc = "raised" /\ exc = "ConnectionError")

ConfigError == load # "ok"

C18_PrewarmBestEffort ==
  /\ vpc = "fanout" => warmed = {cfg.committee[i] : i \in Committee}
  /\ exc \notin {"ClientError", "TimeoutError"}

(***************************************************************************)
(* apps/orchestrator/cache_semantic.py: the semantic cache.  An embedding  *)
(* is a vector of two integers.  A cosine c is kept as the exact fraction  *)
(* sign(c) * c^2, which orders cosines as the floats do.                   *)
(***************************************************************************)
\* _get_embedder().encode([query])[0]
Embeddings == << <<10, 0>>, <<10, 1>>, <<0, 10>>, <<10, 0>>, <<1, 10>> >>
encode(query) == Embeddings[((query - 1) % Len(Embeddings)) + 1]

dot(a, b) == a[1] * b[1] + a[2] * b[2]
SignedSquare(x) == IF x >= 0 THEN x * x ELSE 0 - x * x

\* np.dot(a, b) / ((norm(a) * norm(b)) or 1.0)
_cosine(a, b) ==
  LET n == dot(a, a) * dot(b, b)
  IN [num |-> SignedSquare(dot(a, b)), den |-> IF n = 0 THEN 1 ELSE n]

\* x < y on cosines
Less(x, y) == x.num * y.den < y.num * x.den

\* THRESH = 0.93 (0.93^2 = 0.8649)
THRESH == [num |-> 8649, den |-> 10000]
\* best_score = -1.0
InitialBest == [num |-> 0 - 1, den |-> 1]

\* The (answer, sources) pairs callers store.
Payloads ==
  {[answer |-> "a1", sources |-> <<"doc">>], [answer |-> "a2", sources |-> <<>>]}

\* The keys r.scan_iter("cache:*") can yield: one key per stored query.
StoredKeys == {q \in Queries : sem_store[q] # NoEntry}

\* A scan that settles on the first entry it examines.
scan_first(order, count, emb, best_score, best_val) ==
  IF order = <<>>
  THEN [score |-> best_score, val |-> best_val]
  ELSE [score |-> _cosine(emb, sem_store[Head(order)].embedding),
        val |-> sem_store[Head(order)]]

\* The loop of get_from_cache over the keys, in the order of scan_iter.
RECURSIVE scan(_, _, _, _, _)
scan(order, count, emb, best_score, best_val) ==
  IF order = <<>> \/ count >= MAX_SCAN
  THEN [score |-> best_score, val |-> best_val]
  ELSE LET rec == sem_store[Head(order)]
           score == _cosine(emb, rec.embedding)
       IN IF Less(best_score, score)
          THEN scan(Tail(order), count + 1, emb, score, rec)
          ELSE scan(Tail(order), count + 1, emb, best_score, best_val)

\* get_from_cache(query), when scan_iter yields the keys in `order`.  The
\* field `examined` is history: the keys the loop read.
get_from_cache(query, order) ==
  LET b == scan(order, 0, encode(query), InitialBest, NoEntry)
      examined == SubSeq(order, 1, Min(Len(order), MAX_SCAN))
  IN IF b.val # NoEntry /\ ~Less(b.score, THRESH)
     THEN [query |-> query, hit |-> TRUE, error |-> FALSE, answer |-> b.val.answer,
           sources |-> b.val.sources, cosine |-> b.score, examined |-> examined]
     ELSE [query |-> query, hit |-> FALSE, error |-> FALSE, examined |-> examined]

\* An except clause that only catches the errors of the backend.
sem_catches_backend_only(kind) == kind = "ConnectionError"

\* except Exception, around the whole body of get_from_cache and of
\* set_in_cache: the classes of exception it catches.
sem_catches(kind) == kind \in {"ConnectionError", "EmbedderError", "JSONDecodeError"}

\* What can go wrong inside a call: the backend is down, the embedder
\* raises, an entry (or the payload) cannot be decoded (or encoded).
SemFailures == {"none", "ConnectionError", "EmbedderError", "JSONDecodeError"}

\* get_from_cache(q) ends; `kind` is the exception raised inside it, if any
\* (except Exception: a miss with the error).
SemGet(q, order, kind) ==
  /\ sem_result' = CASE kind = "none" -> get_from_cache(q, order)
                      [] sem_catches(kind) ->
                           [query |-> q, hit |-> FALSE, error |-> TRUE, examined |-> <<>>]
                      [] OTHER -> NoResult
  /\ sem_call' = [op |-> "get", failure |-> kind,
                  raised |-> kind # "none" /\ ~sem_catches(kind)]
  /\ UNCHANGED <<sem_store, gateVars, genVars, voteVars, routerVars, appVars>>

\* set_in_cache(q, answer, sources) ends; nothing is stored when an
\* exception is raised inside it.
SemSet(q, p, kind) ==
  /\ sem_store' = IF kind = "none"
                  THEN [sem_store EXCEPT ![q] =
                          [query |-> q, answer |-> p.answer, sources |-> p.sources,
                           embedding |-> encode(q)]]
                  ELSE sem_store
  /\ sem_result' = NoResult
  /\ sem_call' = [op |-> "set", failure |-> kind,
                  raised |-> kind # "none" /\ ~sem_catches(kind)]
  /\ UNCHANGED <<gateVars, genVars, voteVars, routerVars, appVars>>

\* The TTL of the entry of q runs out.
SemExpire(q) ==
  /\ sem_store[q] # NoEntry
  /\ sem_store' = [sem_store EXCEPT ![q] = NoEntry]
  /\ sem_result' = NoResult
  /\ sem_call' = NoCall
  /\ UNCHANGED <<gateVars, genVars, voteVars, routerVars, appVars>>

InitSem ==
  /\ Init
  /\ cfg.committee = <<1>> /\ cfg.require_heavy /\ cfg.conductor = 1

NextSem ==
  \/ \E q \in Queries, p \in Payloads, kind \in SemFailures : SemSet(q, p, kind)
  \/ \E q \in Queries, kind \in SemFailures, order \in Orders(StoredKeys) :
        SemGet(q, order, kind)
  \/ \E q \in Queries : SemExpire(q)

SpecSem == InitSem /\ [][NextSem]_vars

(***************************************************************************)
(* Properties of the semantic cache.                                       *)
(***************************************************************************)
\* The last get_from_cache returned without an error, and nothing was
\* stored or expired since.
Got == sem_result # NoResult /\ ~sem_result.error

\* C19: read-your-write: get(q) issued while the entry set(q, a, s) wrote is
\* stored (within its TTL, working backend) returns hit=true with answer a
\* and a cosine >= THRESH, whatever other entries are stored.
C19_ReadYourWrite ==
  (Got /\ sem_store[sem_result.query] # NoEntry) =>
     /\ sem_result.hit
     /\ sem_result.answer = sem_store[sem_result.query].answer
     /\ ~Less(sem_result.cosine, THRESH)

\* The cosine of the query of the last get with the stored entry of k.
ScoreOf(k) == _cosine(encode(sem_result.query), sem_store[k].embedding)

Examined == {sem_result.examined[i] : i \in 1..Len(sem_result.examined)}

\* C20: get examines at most MAX_SCAN stored entries; it returns hit=true
\* iff the highest cosine among the examined entries is >= THRESH; on a hit
\* the answer, the sources and the cosine are those of an examined entry of
\* highest cosine; otherwise the result is a miss.
C20_BestOfExamined ==
  /\ Got =>
       /\ Len(sem_result.examined) <= MAX_SCAN
       /\ Examined \subseteq StoredKeys
       /\ sem_result.hit <=> \E k \in Examined : ~Less(ScoreOf(k), THRESH)
       /\ sem_result.hit =>
            \E k \in Examined :
               /\ \A j \in Examined : ~Less(ScoreOf(k), ScoreOf(j))
               /\ sem_result.answer = sem_store[k].answer
               /\ sem_result.sources = sem_store[k].sources
               /\ sem_result.cosine = ScoreOf(k)
  /\ (sem_result # NoResult /\ sem_result.error) => ~sem_result.hit

\* A hit on the entry of a similar query: two entries were examined, the
\* first one below the threshold, and the answer is the one of the second.
C20_Witness ==
  /\ Got
  /\ sem_result.hit
  /\ Len(sem_result.examined) = 2
  /\ Less(ScoreOf(sem_result.examined[1]), THRESH)
  /\ sem_result.examined[2] # sem_result.query
  /\ sem_result.answer = sem_store[sem_result.examined[2]].answer

(***************************************************************************)
(* Properties of the deadline state machine.                               *)
(***************************************************************************)
\* The results of the tasks the first n waits of this vote collected.
CollectedBy(n) ==
  collect(UNION {phaseLog[i].got : i \in 1..Min(n, Len(phaseLog))})

\* C28: only a heavy requirement advances the state machine past SOFT:
\* without require_heavy, or with a success of a heavy model (32b, 70b, 72b,
\* mixtral-8x7b) collected at SOFT, the engine closes after the SOFT wait;
\* GRACE is entered only with require_heavy and no heavy success at SOFT,
\* HARD only with none after GRACE either.
C28_OnlyHeavyAdvances ==
  /\ (Len(phaseLog) >= 1 /\ (~cfg.require_heavy \/ HeavySuccess(CollectedBy(1)))) =>
        (vpc \notin {"grace", "hard"} /\ Len(phaseLog) = 1)
  /\ (vpc = "grace" \/ Len(phaseLog) >= 2) =>
        (cfg.require_heavy /\ ~HeavySuccess(CollectedBy(1)))
  /\ (vpc = "hard" \/ Len(phaseLog) >= 3) =>
        (cfg.require_heavy /\ ~HeavySuccess(CollectedBy(2)))

\* The members whose task one of the waits of this vote collected.
Collected == UNION {phaseLog[i].got : i \in 1..Len(phaseLog)}

\* CLOSED has been reached by a vote that computes its outcome.
AfterClosed ==
  \/ vpc \in {"conductor", "cache_set"}
  \/ Computed
  \/ vpc = "raised" /\ exc = "ConnectionError" /\ Len(phaseLog) >= 1

\* The votes that reach CLOSED reach it within the hard deadline, with votes
\* of collected tasks only.
ClosedInTime ==
  AfterClosed =>
     /\ elapsed <= cfg.hard
     /\ Computed => out.elapsed_s <= cfg.hard
     /\ \A i \in 1..Len(results) : results[i].role \in Collected
     /\ \A t \in Committee \ Collected : pc[t] # "done"

\* C29: with 0 < soft <= soft + grace <= hard, a vote that has started its
\* SOFT wait reaches CLOSED, at most hard time units after the start,
\* whatever the completion times of the tasks, and no task that was not
\* complete at CLOSED has a vote.
C29_ClosedByHard ==
  /\ (vpc = "raised" /\ Len(phaseLog) >= 1) => AfterClosed
  /\ ClosedInTime

\* C30: at CLOSED every pending task of the committee is cancelled: once
\* CLOSED is reached each task of the committee has completed or had its
\* cancellation requested, and the votes are exactly the results of the
\* tasks that completed without exception before CLOSED.
C30_PendingCancelled ==
  AfterClosed =>
     /\ \A t \in Committee : pc[t] \in {"done", "cancelled"} \/ cancelReq[t]
     /\ \A t \in pending : pc[t] = "cancelled" \/ cancelReq[t]
     /\ \A i \in 1..Len(results) :
          /\ pc[results[i].role] = "done"
          /\ results[i] = ask_result(results[i].role)
          /\ results[i].role \notin pending
     /\ Computed => out.votes = results

\* vote returned the one vote collected before CLOSED; the task of the other
\* member was pending at CLOSED and ended cancelled.
C30_Witness ==
  /\ Computed
  /\ Len(out.votes) = 1
  /\ \E t \in Committee : pc[t] = "cancelled" /\ t \notin Collected

\* C21: the semantic cache degrades silently: get_from_cache and
\* set_in_cache never raise; a failure inside get (backend down, embedder
\* failure, undecodable entry) gives hit = false, a failure inside set
\* leaves the store as it was.
C21_DegradesSilently ==
  /\ [](/\ ~sem_call.raised
        /\ (sem_call.op = "get" /\ sem_call.failure # "none") =>
              (sem_result # NoResult /\ ~sem_result.hit))
  /\ [][(sem_call'.op = "set" /\ sem_call'.failure # "none") =>
           sem_store' = sem_store]_vars

\* A get, on a store that holds the entry of the query, hit by an
\* undecodable entry: it returned a miss.
C21_Witness ==
  /\ sem_call.op = "get"
  /\ sem_call.failure = "JSONDecodeError"
  /\ sem_result # NoResult /\ ~sem_result.hit /\ sem_result.error
  /\ sem_store[sem_result.query] # NoEntry

(***************************************************************************)
(* core/memory/memory_fusion.py: dedup.  An item is a record with the      *)
(* fields id, doc_id and text; None stands for a missing field and         *)
(* EmptyStr for the empty string, the two falsy values of a field.         *)
(***************************************************************************)
MaxItems == 3

None == 0
EmptyStr == 9
Falsy(v) == v \in {None, EmptyStr}

Items == [id : {None, 1, 2}, doc_id : {None, 1}, text : {None, EmptyStr, 1}]
ItemLists == UNION {[1..n -> Items] : n \in 0..MaxItems}

\* A key that only looks at the id.
item_key_id_only(it) == it.id

\* it.get("id") or it.get("doc_id") or it.get("text"): the first truthy
\* operand, else the last one.
item_key(it) ==
  IF ~Falsy(it.id) THEN it.id
  ELSE IF ~Falsy(it.doc_id) THEN it.doc_id
  ELSE it.text

\* The loop of dedup over the items not yet read.
RECURSIVE dedup_loop(_, _, _)
dedup_loop(items, seen, kept) ==
  IF items = <<>> THEN kept
  ELSE IF item_key(Head(items)) \in seen
       THEN dedup_loop(Tail(items), seen, kept)
       ELSE dedup_loop(Tail(items), seen \cup {item_key(Head(items))},
                       Append(kept, Head(items)))

dedup(items) == dedup_loop(items, {}, <<>>)

\* The pending call dedup(x) is run, and dedup again on its result.
DedupCall ==
  /\ rt_call.op = "dedup"
  /\ rt_ret = NoRouterCall
  /\ rt_ret' = [items |-> dedup(rt_call.items), again |-> dedup(dedup(rt_call.items))]
  /\ UNCHANGED <<rt_call, gateVars, genVars, voteVars, semVars, appVars>>

\* The program is idle and the call `call` is about to run.
InitRouter(calls) ==
  /\ InitProgram
  /\ cfg.committee = <<1>> /\ cfg.require_heavy /\ cfg.conductor = 1
  /\ rt_call \in calls
  /\ rt_ret = NoRouterCall

InitDedup == InitRouter({[op |-> "dedup", items |-> x] : x \in ItemLists})

NextDedup == DedupCall

SpecDedup == InitDedup /\ [][NextDedup]_vars

(***************************************************************************)
(* Properties of dedup.                                                    *)
(***************************************************************************)
\* The key of an item as the specification words it: the id, else the
\* doc_id, else the text.
SpecKey(it) ==
  CASE it.id \notin {None, EmptyStr} -> it.id
    [] it.doc_id \notin {None, EmptyStr} -> it.doc_id
    [] OTHER -> it.text

\* The positions of x that hold the first occurrence of their key.
FirstPositions(x) ==
  {i \in 1..Len(x) : \A j \in 1..(i - 1) : SpecKey(x[j]) # SpecKey(x[i])}

\* The items of x at the positions P, in the order of x.
Pick(x, P) ==
  [n \in 1..Cardinality(P) |->
     x[CHOOSE i \in P : Cardinality({j \in P : j <= i}) = n]]

\* C26: dedup is idempotent and keeps first occurrences: dedup(dedup(x)) =
\* dedup(x), the result holds each key once, and it is the list of the first
\* occurrences of the keys of x, in the order of x.
C26_DedupIdempotent ==
  (rt_call.op = "dedup" /\ rt_ret # NoRouterCall) =>
     LET x == rt_call.items
         y == rt_ret.items
     IN /\ rt_ret.again = y
        /\ \A i, j \in 1..Len(y) : i # j => SpecKey(y[i]) # SpecKey(y[j])
        /\ {SpecKey(y[i]) : i \in 1..Len(y)} = {SpecKey(x[i]) : i \in 1..Len(x)}
        /\ y = Pick(x, FirstPositions(x))

\* dedup dropped the second item, which has the key of the first under
\* another field, and kept the third.
C26_Witness ==
  /\ rt_call.op = "dedup" /\ rt_ret # NoRouterCall
  /\ Len(rt_call.items) = 3
  /\ rt_call.items[1].id = 1
  /\ rt_call.items[2].id = None /\ rt_call.items[2].doc_id = 1
  /\ SpecKey(rt_call.items[3]) = 2
  /\ rt_ret.items = <<rt_call.items[1], rt_call.items[3]>>

(***************************************************************************)
(* core/mome_router.py: weighted reciprocal rank fusion.  Weights are      *)
(* counted in twentieths (0.05), scores in units of 1 / (20 * RankDen),    *)
(* where RankDen is the product of the denominators k + rank: every score  *)
(* of the model is the exact value of the sum the code computes.           *)
(***************************************************************************)
MaxDocs == 3
k_param == 60
DefaultWeight == 2

MaxRank == MaxDocs
Docs == 1..MaxDocs
ExpertNames == <<"lexical", "semantic", "temporal", "graph">>
ExpertNo(e) == CHOOSE i \in 1..Len(ExpertNames) : ExpertNames[i] = e

RECURSIVE Product(_, _)
Product(k, n) == IF n = 0 THEN 1 ELSE (k + n) * Product(k, n - 1)

\* The common denominator of 1 / (k + 1) .. 1 / (k + MaxRank).
RankDen(k) == Product(k, MaxRank)

\* 1.0 / (k + rank)
Recip(k, rank) == RankDen(k) \div (k + rank)

\* f"{expert}_{rank}", the id of a document that has none.
SyntheticId(expert, rank) == 1000 * ExpertNo(expert) + rank

\* The document `d` as the expert `e` returns it.
Doc(e, d) == [id |-> d, text |-> d, expert |-> e]

\* weights.get(expert, 0.1)
weight_of(weights, expert) ==
  IF expert \in DOMAIN weights THEN weights[expert] ELSE DefaultWeight

\* The (expert, rank, doc) triples in the order the two loops read them.
RECURSIVE Entries(_)
Entries(results_by_expert) ==
  IF results_by_expert = <<>> THEN <<>>
  ELSE LET e == Head(results_by_expert).expert
           docs == Head(results_by_expert).results
       IN [r \in 1..Len(docs) |-> [expert |-> e, rank |-> r, doc |-> docs[r]]]
          \o Entries(Tail(results_by_expert))

\* scores[doc_id] += inc, and doc_map[doc_id] = doc if doc_id is new: the
\* two dictionaries as one list, in insertion order.
add_score(acc, doc_id, inc, doc) ==
  IF \E i \in 1..Len(acc) : acc[i].id = doc_id
  THEN [i \in 1..Len(acc) |->
          IF acc[i].id = doc_id THEN [acc[i] EXCEPT !.score = @ + inc] ELSE acc[i]]
  ELSE Append(acc, [id |-> doc_id, score |-> inc, doc |-> doc])

RECURSIVE rrf_loop(_, _, _, _)
rrf_loop(entries, weights, k, acc) ==
  IF entries = <<>> THEN acc
  ELSE LET en == Head(entries)
           doc_id == IF en.doc.id = None THEN SyntheticId(en.expert, en.rank)
                     ELSE en.doc.id
       IN rrf_loop(Tail(entries), weights, k,
                   add_score(acc, doc_id,
                             weight_of(weights, en.expert) * Recip(k, en.rank), en.doc))

\* A list left in its insertion order.
not_sorted(s) == s

\* sorted(..., key=score, reverse=True): a stable sort, items of equal
\* score keep their order.
RECURSIVE sorted_desc(_)
sorted_desc(s) ==
  IF s = <<>> THEN <<>>
  ELSE LET i == CHOOSE i \in 1..Len(s) :
                   /\ \A j \in 1..Len(s) : s[j].score <= s[i].score
                   /\ \A j \in 1..(i - 1) : s[j].score < s[i].score
       IN <<s[i]>> \o sorted_desc(SubSeq(s, 1, i - 1) \o SubSeq(s, i + 1, Len(s)))

_reciprocal_rank_fusion(results_by_expert, weights, k) ==
  LET sorted_docs == sorted_desc(rrf_loop(Entries(results_by_expert), weights, k, <<>>))
  IN [i \in 1..Len(sorted_docs) |->
        [final_score |-> sorted_docs[i].score] @@ sorted_docs[i].doc]

\* The pending call _reciprocal_rank_fusion(results_by_expert, weights) is run.
FusionCall ==
  /\ rt_call.op = "rrf"
  /\ rt_ret = NoRouterCall
  /\ rt_ret' = [fused |-> _reciprocal_rank_fusion(rt_call.results_by_expert,
                                                   rt_call.weights, k_param)]
  /\ UNCHANGED <<rt_call, gateVars, genVars, voteVars, semVars, appVars>>

\* The lists of distinct documents an expert can return.
DocLists ==
  {c \in UNION {[1..m -> Docs] : m \in 0..MaxRank} :
     \A i, j \in 1..Len(c) : i # j => c[i] # c[j]}

Bucket(e, c) == [expert |-> e, results |-> [r \in 1..Len(c) |-> Doc(e, c[r])]]

\* The weights given to the fusion: equal weights, all zero, one nonzero
\* weight, a row of FUSION_WEIGHTS, and a mapping without the semantic
\* expert.
WeightChoices ==
  {("lexical" :> 10 @@ "semantic" :> 10), ("lexical" :> 0 @@ "semantic" :> 0),
   ("lexical" :> 20 @@ "semantic" :> 0), ("lexical" :> 0 @@ "semantic" :> 6),
   ("lexical" :> 8 @@ "semantic" :> 6), ("lexical" :> 0 @@ "graph" :> 0)}

\* Two buckets, inserted in one order or the other.
BucketMap(a, b, lexical_first) ==
  IF lexical_first THEN <<Bucket("lexical", a), Bucket("semantic", b)>>
  ELSE <<Bucket("semantic", b), Bucket("lexical", a)>>

\* The example of the specification: {lex: [d1, d2, d3], sem: [d3, d1, d4]}
\* with the weights 0.5 and 0.5.
GoldenCall ==
  [op |-> "rrf", results_by_expert |-> BucketMap(<<1, 2, 3>>, <<3, 1, 4>>, TRUE),
   weights |-> ("lexical" :> 10 @@ "semantic" :> 10)]

InitFusion ==
  \/ \E a, b \in DocLists, w \in WeightChoices, lexical_first \in BOOLEAN :
        InitRouter({[op |-> "rrf", results_by_expert |-> BucketMap(a, b, lexical_first),
                     weights |-> w]})
  \/ InitRouter({GoldenCall})

NextFusion == FusionCall

SpecFusion == InitFusion /\ [][NextFusion]_vars

(***************************************************************************)
(* Properties of the fusion.                                               *)
(***************************************************************************)
\* The ids of a fused list, in its order.
Ranking(fused) == [i \in 1..Len(fused) |-> fused[i].id]

\* The (bucket, rank) positions at which the document `id` appears.
PositionsOf(m, id) ==
  {p \in (1..Len(m)) \X (1..MaxRank) :
     p[2] <= Len(m[p[1]].results) /\ m[p[1]].results[p[2]].id = id}

\* The sum of w[expert] / (k + r) over a set of positions.
RECURSIVE WeightedSum(_, _, _)
WeightedSum(P, m, w) ==
  IF P = {} THEN 0
  ELSE LET p == CHOOSE q \in P : TRUE
       IN w[m[p[1]].expert] * (RankDen(k_param) \div (k_param + p[2]))
          + WeightedSum(P \ {p}, m, w)

\* The documents of the buckets.
DocsOf(m) == {m[i].results[r].id : <<i, r>> \in
                 {p \in (1..Len(m)) \X (1..MaxRank) : p[2] <= Len(m[p[1]].results)}}

Fused == rt_call.op = "rrf" /\ rt_ret # NoRouterCall
Weighted == \A i \in 1..Len(rt_call.results_by_expert) :
               rt_call.results_by_expert[i].expert \in DOMAIN rt_call.weights

\* C23: weighted RRF: the fused score of a document is the sum over the
\* (expert, rank r) positions at which it appears, ranks counted from 1, of
\* w[expert] / (k + r); the output holds each document once, by descending
\* fused score; for {lex: [d1, d2, d3], sem: [d3, d1, d4]}, weights 0.5 and
\* 0.5, k = 60, the order is [d1, d3, d2, d4].
C23_WeightedRRF ==
  (Fused /\ Weighted) =>
     LET m == rt_call.results_by_expert
         w == rt_call.weights
         fused == rt_ret.fused
     IN /\ {fused[i].id : i \in 1..Len(fused)} = DocsOf(m)
        /\ Len(fused) = Cardinality(DocsOf(m))
        /\ \A i \in 1..Len(fused) :
              fused[i].final_score = WeightedSum(PositionsOf(m, fused[i].id), m, w)
        /\ \A i \in 1..(Len(fused) - 1) : fused[i].final_score >= fused[i + 1].final_score
        /\ rt_call = GoldenCall => Ranking(fused) = <<1, 3, 2, 4>>

\* The fusion of the two buckets of the example has returned.
C23_Witness ==
  /\ Fused
  /\ rt_call = GoldenCall
  /\ Ranking(rt_ret.fused) = <<1, 3, 2, 4>>

\* The buckets of m inserted in the order o.
Permuted(m, o) == [i \in 1..Len(m) |-> m[o[i]]]

\* C24: fusion is order-independent across buckets: inserting the buckets
\* of the {expert -> bucket} mapping in another order yields the same final
\* ranking, also when two documents have equal fused scores.
C24_OrderIndependent ==
  Fused =>
     \A o \in Orders(1..Len(rt_call.results_by_expert)) :
        Ranking(_reciprocal_rank_fusion(Permuted(rt_call.results_by_expert, o),
                                        rt_call.weights, k_param))
          = Ranking(rt_ret.fused)

\* The ids of the bucket of the expert e.
BucketRanking(m, e) ==
  LET i == CHOOSE j \in 1..Len(m) : m[j].expert = e
  IN [r \in 1..Len(m[i].results) |-> m[i].results[r].id]

\* C25: weighted RRF honours the weights it is given: with all weights zero
\* every fused score is zero, and with exactly one nonzero weight the final
\* ranking is the ranking of the bucket of that expert.
C25_HonoursWeights ==
  Fused =>
     LET m == rt_call.results_by_expert
         w == rt_call.weights
         fused == rt_ret.fused
     IN /\ (\A e \in DOMAIN w : w[e] = 0) =>
              \A i \in 1..Len(fused) : fused[i].final_score = 0
        /\ \A e \in DOMAIN w :
              (w[e] # 0 /\ \A f \in DOMAIN w \ {e} : w[f] = 0) =>
                 Ranking(fused) = BucketRanking(m, e)

(***************************************************************************)
(* core/mome_router.py: query classification, the search experts and      *)
(* run_mome.  Queries and keywords are sequences of characters.            *)
(***************************************************************************)
temporal_keywords ==
  {<<"r", "e_acute", "c", "e", "n", "t">>,
   <<"d", "e", "r", "n", "i", "e", "r">>,
   <<"n", "o", "u", "v", "e", "a", "u">>,
   <<"a", "u", "j", "o", "u", "r", "d", "'", "h", "u", "i">>,
   <<"2", "0", "2", "4">>,
   <<"2", "0", "2", "5">>}
factual_keywords ==
  {<<"q", "u", "i", " ", "e", "s", "t">>,
   <<"q", "u", "'", "e", "s", "t", "-", "c", "e">>,
   <<"d", "e_acute", "f", "i", "n", "i", "t", "i", "o", "n">>,
   <<"c", "o", "m", "b", "i", "e", "n">>,
   <<"q", "u", "a", "n", "d">>}
conceptual_keywords ==
  {<<"p", "o", "u", "r", "q", "u", "o", "i">>,
   <<"c", "o", "m", "m", "e", "n", "t">>,
   <<"e", "x", "p", "l", "i", "q", "u", "e", "r">>,
   <<"c", "o", "n", "c", "e", "p", "t">>,
   <<"p", "r", "i", "n", "c", "i", "p", "e">>}

\* A classification that looks for factual keywords first.
_detect_query_type_factual_first(query) ==
  LET query_lower == lower(query)
  IN IF \E kw \in factual_keywords : Contains(query_lower, kw) THEN "factual"
     ELSE IF \E kw \in temporal_keywords : Contains(query_lower, kw) THEN "recent"
     ELSE IF \E kw \in conceptual_keywords : Contains(query_lower, kw) THEN "conceptual"
     ELSE "default"

_detect_query_type(query) ==
  LET query_lower == lower(query)
  IN IF \E kw \in temporal_keywords : Contains(query_lower, kw) THEN "recent"
     ELSE IF \E kw \in factual_keywords : Contains(query_lower, kw) THEN "factual"
     ELSE IF \E kw \in conceptual_keywords : Contains(query_lower, kw) THEN "conceptual"
     ELSE "default"

\* FUSION_WEIGHTS, in twentieths.
FUSION_WEIGHTS ==
  [factual |-> [lexical |-> 8, semantic |-> 6, temporal |-> 4, graph |-> 2],
   conceptual |-> [semantic |-> 10, lexical |-> 4, temporal |-> 3, graph |-> 3],
   recent |-> [temporal |-> 10, lexical |-> 5, semantic |-> 4, graph |-> 1],
   default |-> [semantic |-> 7, lexical |-> 7, temporal |-> 4, graph |-> 2]]

\* The queries of the model, with the kinds of keyword a reader finds in
\* each of them.
QueryTexts ==
  <<[text |-> <<"Q", "u", "a", "n", "d", " ", "2", "0", "2", "5">>,
      temporal |-> TRUE, factual |-> TRUE, conceptual |-> FALSE],
    [text |-> <<"Q", "u", "i", " ", "e", "s", "t", " ", "l", "a">>,
      temporal |-> FALSE, factual |-> TRUE, conceptual |-> FALSE],
    [text |-> <<"P", "O", "U", "R", "Q", "U", "O", "I">>,
      temporal |-> FALSE, factual |-> FALSE, conceptual |-> TRUE],
    [text |-> <<"b", "o", "n", "j", "o", "u", "r">>,
      temporal |-> FALSE, factual |-> FALSE, conceptual |-> FALSE],
    [text |-> <<"C", "o", "m", "m", "e", "n", "t", ",", " ", "q", "u", "a", "n", "d">>,
      temporal |-> FALSE, factual |-> TRUE, conceptual |-> TRUE],
    [text |-> <<"D", "e", "r", "n", "i", "e", "r", " ", "c", "o", "n", "c", "e", "p", "t">>,
      temporal |-> TRUE, factual |-> FALSE, conceptual |-> TRUE],
    [text |-> <<"D", "E_acute", "F", "I", "N", "I", "T", "I", "O", "N">>,
      temporal |-> FALSE, factual |-> TRUE, conceptual |-> FALSE],
    [text |-> <<"n", "o", "u", "v", "e", "a", "u", "x", " ", "p", "r", "i", "n", "c", "i", "p", "e", "s">>,
      temporal |-> TRUE, factual |-> FALSE, conceptual |-> TRUE]>>
RouterQueries == 1..Len(QueryTexts)

\* The ids the experts give: f"meili_{i}", f"temporal_{i}" for a hit without
\* id, and the id of the document of the semantic stub.
MeiliId(i) == 5000 + i
TemporalId(i) == 6000 + i
QdrantStubId == 7001

\* The hits of a Meilisearch answer: each hit may or may not carry an id.
HitIds == {None, 1, 2}
HitLists(n) == UNION {[1..m -> [id : HitIds]] : m \in 0..n}

\* What a request to Meilisearch ends with: an exception of the HTTP client,
\* a status other than 200, or 200 and at most `limit` hits.
Responses(limit) ==
  {[exception |-> e, status |-> 0, hits |-> <<>>] : e \in {"ConnectError"}}
    \cup {[exception |-> "none", status |-> 500, hits |-> <<>>]}
    \cup {[exception |-> "none", status |-> 200, hits |-> h] :
            h \in HitLists(Min(limit, MaxRank - 1))}

\* except Exception in the search functions: the classes it catches.
search_catches(kind) == kind \in {"ConnectError", "ReadTimeout", "Exception"}

\* The documents a search function returns, or the exception it lets through.
Found(docs) == [raised |-> FALSE, docs |-> docs]
Raises == [raised |-> TRUE, docs |-> <<>>]

_search_lexical(query, k, resp) ==
  IF resp.exception # "none"
  THEN IF search_catches(resp.exception) THEN Found(<<>>) ELSE Raises
  ELSE IF resp.status = 200
       THEN Found([n \in 1..Len(resp.hits) |->
                     [text |-> "content", expert |-> "lexical",
                      id |-> IF resp.hits[n].id = None THEN MeiliId(n - 1)
                             ELSE resp.hits[n].id]])
       ELSE Found(<<>>)

\* A semantic expert that finds nothing.
_search_semantic_nothing(query, k) == Found(<<>>)

\* The stub: one document, whatever the query.
_search_semantic(query, k) ==
  Found(<<[text |-> "stub", expert |-> "semantic", id |-> QdrantStubId]>>)

_search_temporal(query, k, resp) ==
  IF resp.exception # "none"
  THEN IF search_catches(resp.exception) THEN Found(<<>>) ELSE Raises
  ELSE IF resp.status = 200
       THEN Found([n \in 1..Len(resp.hits) |->
                     [text |-> "content", expert |-> "temporal",
                      id |-> IF resp.hits[n].id = None THEN TemporalId(n - 1)
                             ELSE resp.hits[n].id]])
       ELSE Found(<<>>)

_search_graph(query, k) == Found(<<>>)

\* fused[:k], for k >= 0.
Slice(s, k) == SubSeq(s, 1, Min(k, Len(s)))

\* run_mome(query, k), when the two requests to Meilisearch end with
\* lex_resp and tmp_resp.
run_mome(query, k, lex_resp, tmp_resp) ==
  LET text == QueryTexts[query].text
      query_type == _detect_query_type(text)
      weights == IF query_type \in DOMAIN FUSION_WEIGHTS THEN FUSION_WEIGHTS[query_type]
                 ELSE FUSION_WEIGHTS["default"]
      search(e) == CASE e = "lexical" -> _search_lexical(text, k, lex_resp)
                     [] e = "semantic" -> _search_semantic(text, k)
                     [] e = "temporal" -> _search_temporal(text, k, tmp_resp)
                     [] e = "graph" -> _search_graph(text, k)
      used == SelectSeq(ExpertNames, LAMBDA e : weights[e] > 0)
      results_by_expert == [i \in 1..Len(used) |->
                              [expert |-> used[i], results |-> search(used[i]).docs]]
      fused == _reciprocal_rank_fusion(results_by_expert, weights, k_param)
      top_k == Slice(fused, k)
  IN IF \E i \in 1..Len(used) : search(used[i]).raised
     THEN [raised |-> TRUE]
     ELSE [raised |-> FALSE,
           answer |-> [query |-> query,
                       context |-> [i \in 1..Min(3, Len(top_k)) |-> top_k[i].text]],
           sources |-> top_k,
           experts_used |-> used,
           query_type |-> query_type,
           fusion_method |-> "rrf_adaptive",
           fusion_weights |-> weights]

\* The pending call run_mome(query, k) is run.
RunMome ==
  /\ rt_call.op = "run_mome"
  /\ rt_ret = NoRouterCall
  /\ rt_ret' = run_mome(rt_call.query, rt_call.k, rt_call.lexical, rt_call.temporal)
  /\ UNCHANGED <<rt_call, gateVars, genVars, voteVars, semVars, appVars>>

InitMome ==
  \E q \in RouterQueries, k \in 0..MaxRank :
     \E lex_resp, tmp_resp \in Responses(k) :
        InitRouter({[op |-> "run_mome", query |-> q, k |-> k,
                     lexical |-> lex_resp, temporal |-> tmp_resp]})

NextMome == RunMome

SpecMome == InitMome /\ [][NextMome]_vars

(***************************************************************************)
(* Properties of the router.                                               *)
(***************************************************************************)
Routed == rt_call.op = "run_mome" /\ rt_ret # NoRouterCall /\ ~rt_ret.raised

\* The class the specification gives a query with these kinds of keyword.
ClassOf(q) ==
  CASE q.temporal -> "recent"
    [] ~q.temporal /\ q.factual -> "factual"
    [] ~q.temporal /\ ~q.factual /\ q.conceptual -> "conceptual"
    [] OTHER -> "default"

\* C22: query classification has the fixed priority recent > factual >
\* conceptual > default: a query with a temporal keyword is recent whatever
\* else it contains, one with a factual and no temporal keyword is factual,
\* one with conceptual keywords only is conceptual, any other is default;
\* the weights run_mome fuses with are the table row of that class.
C22_Classification ==
  Routed =>
     LET q == QueryTexts[rt_call.query]
         row == FUSION_WEIGHTS[ClassOf(q)]
     IN /\ rt_ret.query_type = ClassOf(q)
        /\ rt_ret.fusion_weights = row
        /\ \A i \in 1..Len(rt_ret.sources) :
              rt_ret.sources[i].id = QdrantStubId =>
                 rt_ret.sources[i].final_score = row.semantic * Recip(k_param, 1)

\* A query with a factual and a temporal keyword ("Quand 2025") was routed
\* as recent, with the weights of that row.
C22_Witness ==
  /\ Routed
  /\ QueryTexts[rt_call.query].temporal /\ QueryTexts[rt_call.query].factual
  /\ rt_ret.query_type = "recent"
  /\ rt_ret.fusion_weights.temporal = 10

\* C27: for every query and every k >= 1, run_mome returns fusion_method
\* rrf_adaptive, a query_type among factual, conceptual, recent and default,
\* and a non-empty list of at most k sources by non-increasing final_score,
\* each with text, expert and final_score, also when every request to a
\* search backend fails.
C27_RunMomeShape ==
  (rt_call.op = "run_mome" /\ rt_ret # NoRouterCall /\ rt_call.k >= 1) =>
     /\ ~rt_ret.raised
     /\ rt_ret.fusion_method = "rrf_adaptive"
     /\ rt_ret.query_type \in {"factual", "conceptual", "recent", "default"}
     /\ Len(rt_ret.sources) >= 1
     /\ Len(rt_ret.sources) <= rt_call.k
     /\ \A i \in 1..(Len(rt_ret.sources) - 1) :
           rt_ret.sources[i].final_score >= rt_ret.sources[i + 1].final_score
     /\ \A i \in 1..Len(rt_ret.sources) :
           {"text", "expert", "final_score"} \subseteq DOMAIN rt_ret.sources[i]

\* Both requests to Meilisearch failed, one with an exception and one with
\* an error status: the only source is the document of the semantic stub.
C27_Witness ==
  /\ Routed
  /\ rt_call.k >= 2
  /\ rt_call.lexical.exception = "ConnectError"
  /\ rt_call.temporal.status = 500
  /\ Len(rt_ret.sources) = 1
  /\ rt_ret.sources[1].id = QdrantStubId

(***************************************************************************)
(* Properties of the synthesis.                                            *)
(***************************************************************************)
\* The successful votes of the outcome.
ValidVotes == SelectSeq(out.votes, LAMBDA r : r.success)

\* The committee has one member and its vote is a success.
SingleMemberSuccess == Len(cfg.committee) = 1 /\ Len(ValidVotes) = 1

\* C31: single-member shortcut: when the committee has exactly one member
\* and that member succeeded, an ok outcome is that member's answer with
\* confidence 0.9 and the conductor is never called; in every other ok case
\* the conductor is called exactly once: it is started by the CLOSED step
\* only, and its answer is the final answer.
C31_SingleMemberShortcut ==
  /\ [](/\ (Computed /\ out.status = "ok" /\ SingleMemberSuccess) =>
              /\ out.final_answer = ValidVotes[1].answer
              /\ out.confidence = 90
              /\ pc[Conductor] = "idle"
        /\ (Computed /\ out.status = "ok" /\ ~SingleMemberSuccess) =>
              /\ pc[Conductor] = "done"
              /\ out.final_answer = retval[Conductor]
        /\ (Computed /\ out.status = "timeout") => pc[Conductor] = "idle")
  /\ [][(pc[Conductor] = "idle" /\ pc'[Conductor] # "idle") =>
           (vpc \in {"soft", "grace", "hard"} /\ vpc' = "conductor")]_vars

\* A committee of one member answered: the outcome is its answer and the
\* conductor was left alone.
C31_Witness ==
  /\ Computed /\ out.status = "ok"
  /\ SingleMemberSuccess
  /\ out.confidence = 90
  /\ pc[Conductor] = "idle"
  /\ pc[1] = "done" /\ out.final_answer = retval[1]

\* C32: heavy classification is the same everywhere: the heavy test of the
\* consensus engine agrees with the classification of the Heavy Gate
\* (32b, 70b, 72b, mixtral-8x7b, case-insensitive) on every model of the
\* committee and on the conductor.
C32_SameClassification ==
  /\ \A t \in Committee : vote_heavy[cfg.committee[t]] = gate_heavy[cfg.committee[t]]
  /\ vote_heavy[cfg.conductor] = gate_heavy[cfg.conductor]
  /\ \A t \in Tasks : (pc[t] = "http" /\ gate_heavy[tModel[t]]) => vote_heavy[tModel[t]]

\* C35: an ok outcome rests on at least one answer: its votes hold a vote
\* with success = true, and the conductor is never asked to synthesize an
\* empty set of committee answers.
C35_OkHasAnswer ==
  /\ (Computed /\ out.status = "ok") => \E i \in 1..Len(out.votes) : out.votes[i].success
  /\ vpc = "conductor" => \E i \in 1..Len(results) : results[i].success

(***************************************************************************)
(* Two concurrent calls of vote with the same prompt, context, mode and    *)
(* configuration, hence the same cache key.  The run of the committee of   *)
(* each call is one step whose result depends on when and how the backend  *)
(* answers that call.                                                      *)
(***************************************************************************)
Other(v) == CHOOSE w \in Voters : w # v

\* What the backend does with the calls of one vote: it answers, it
\* answers with an error, or it stays silent until the hard deadline.
BackendKinds == {"answer", "error", "silent"}

\* The outcome of a vote of a committee of one heavy member with
\* require_heavy, when the backend does `kind` after `el` ticks.
vote_outcome(kind, el) ==
  CASE kind = "answer" ->
         [status |-> "ok", final_answer |-> ResponseText(1),
          votes |-> <<[role |-> 1, model |-> cfg.committee[1],
                       answer |-> ResponseText(1), success |-> TRUE]>>,
          confidence |-> 90, elapsed_s |-> el, mode |-> cfg.mode]
    [] kind = "silent" ->
         [status |-> "timeout", final_answer |-> TimeoutAnswer, votes |-> <<>>,
          confidence |-> 0, elapsed_s |-> cfg.hard, mode |-> cfg.mode]
    [] OTHER -> [status |-> "none"]

\* vote(...) is called.
CvCall(v) ==
  /\ cv[v].pc = "idle"
  /\ cv' = [cv EXCEPT ![v] = [NoVote EXCEPT !.pc = "cache_get"]]
  /\ UNCHANGED <<gateVars, genVars, voteVars, semVars, routerVars, mem>>

\* await cache_get(ck): a hit is returned, a miss starts the committee.
CvCacheGet(v) ==
  /\ cv[v].pc = "cache_get"
  /\ \E ping, op \in BOOLEAN :
       LET r == cache_get(_client, ping, op, cache)
       IN /\ _client' = r.client
          /\ cv' = [cv EXCEPT ![v] =
                      IF r.raised THEN [@ EXCEPT !.pc = "raised"]
                      ELSE IF r.value # NoOutcome
                      THEN [@ EXCEPT !.pc = "returned", !.out = r.value, !.hit = TRUE]
                      ELSE [@ EXCEPT !.pc = "running",
                                     !.duplicate = cv[Other(v)].pc \in {"running", "computed"}]]
  /\ UNCHANGED <<gateVars, genVars, cfg, vpc, results, pending, vtimer, elapsed, out,
                 phaseLog, load, warmed, exc, cache, cache_ttl, semVars, routerVars, mem>>

\* The committee ran and the outcome is built (or the vote raised).
CvCompute(v) ==
  /\ cv[v].pc = "running"
  /\ \E kind \in BackendKinds, el \in 0..cfg.hard :
       LET o == vote_outcome(kind, el)
       IN cv' = [cv EXCEPT ![v] = IF o.status = "none" THEN [@ EXCEPT !.pc = "raised"]
                                  ELSE [@ EXCEPT !.pc = "computed", !.out = o]]
  /\ UNCHANGED <<gateVars, genVars, voteVars, semVars, routerVars, mem>>

\* await cache_set(ck, out); return out.
CvCacheSet(v) ==
  /\ cv[v].pc = "computed"
  /\ \E ping, op \in BOOLEAN :
       LET r == cache_set(_client, ping, op, cache, cache_ttl, cv[v].out, 0)
       IN /\ _client' = r.client
          /\ cache' = r.entry
          /\ cache_ttl' = r.ttl
          /\ cv' = [cv EXCEPT ![v].pc = IF r.raised THEN "raised" ELSE "returned"]
  /\ UNCHANGED <<gateVars, genVars, cfg, vpc, results, pending, vtimer, elapsed, out,
                 phaseLog, load, warmed, exc, semVars, routerVars, mem>>

InitTwoVotes ==
  /\ Init
  /\ cfg.committee = <<1>> /\ cfg.require_heavy /\ cfg.conductor = 1

NextTwoVotes ==
  \E v \in Voters : CvCall(v) \/ CvCacheGet(v) \/ CvCompute(v) \/ CvCacheSet(v)

SpecTwoVotes == InitTwoVotes /\ [][NextTwoVotes]_vars

(***************************************************************************)
(* Properties of concurrent votes.                                         *)
(***************************************************************************)
\* Both votes missed the cache, one of them while the other was running,
\* and both have returned their own outcome.
BothComputed ==
  /\ \A v \in Voters : cv[v].pc = "returned" /\ ~cv[v].hit
  /\ \E v \in Voters : cv[v].duplicate

\* C33: two concurrent votes for the same key that both miss the cache each
\* run the committee and write the cache; the duplicate writes are
\* idempotent: both store the same value, so the cached entry does not
\* depend on the interleaving.
C33_DuplicateWrites ==
  BothComputed =>
     /\ cv["a"].out = cv["b"].out
     /\ cache # NoOutcome => (cache = cv["a"].out /\ cache = cv["b"].out)

(***************************************************************************)
(* Properties of the requests sent to heavy models.                        *)
(***************************************************************************)
\* The heavy models prewarm posts a generation request to in this step.
PrewarmedHeavy == {m \in warmed' : gate_heavy[m]}

\* C36: every generation request to a heavy model is issued while holding
\* the heavy gate: at most max_heavy calls of generate are inside the
\* section, and a step in which prewarm posts a request to a heavy model is
\* taken with a permit of the gate held.
C36_HeavyRequestsGated ==
  /\ [](Cardinality(InSection) <= max_heavy)
  /\ [][(vpc = "prewarm" /\ PrewarmedHeavy # {}) => semValue < max_heavy]_vars

\* The permits that are out of the gate: taken by a running attempt or
\* handed to a woken waiter.
PermitsOut == max_heavy - semValue

\* C37: the gate is held only during one HTTP attempt: a call of a heavy
\* model that sleeps in a backoff, has returned, raised or was cancelled
\* holds no permit (the permits out belong to the other calls that are in
\* their attempt or were handed one), the step that ends an attempt gives
\* the permit back, and the step that starts an attempt takes one.
C37_HeldPerAttempt ==
  /\ [](\A t \in Tasks :
          (HeavyTask(t) /\ pc[t] \in {"backoff", "done", "raised", "cancelled"}) =>
             PermitsOut = Cardinality((InSection \cup Handed) \ {t}))
  /\ [][\A t \in Tasks :
          /\ (HeavyTask(t) /\ pc[t] = "http" /\ pc'[t] # "http") =>
               semValue' + Cardinality(Handed') = semValue + Cardinality(Handed) + 1
          /\ (HeavyTask(t) /\ pc[t] \in {"created", "backoff"} /\ pc'[t] = "http") =>
               (semValue = max_heavy /\ semValue' = semValue - 1)
       ]_vars

\* A heavy call sleeps in its backoff while another heavy call, which
\* entered the section in the meantime, runs its attempt.
C37_Witness ==
  \E t, u \in Tasks :
     /\ HeavyTask(t) /\ pc[t] = "backoff" /\ timer[t] > 0
     /\ HeavyTask(u) /\ pc[u] = "http" /\ attempt[u] = 0

(***************************************************************************)
(* One vote of a heavy committee, with a heavy call of a concurrent vote   *)
(* on the same gate, under the fairness of the event loop: every callback  *)
(* that is ready runs, every HTTP attempt ends within its timeout and time *)
(* advances.                                                               *)
(***************************************************************************)
\* The task of the concurrent vote: the last task id, which a committee of
\* one member does not use.
Foreign == MaxCommittee

\* ask(m) of a concurrent vote calls generate for a heavy model while the
\* committee or the conductor of this vote runs, once per vote.
ForeignCall ==
  /\ Len(cfg.committee) = 1
  /\ pc[Foreign] = "idle"
  /\ vpc \in {"soft", "grace", "hard", "conductor"}
  /\ \E m \in {x \in ModelIds : gate_heavy[x]} : CallGenerate(Foreign, m)

\* The steps of vote between its call and its return.
VoteStep ==
  \/ CacheGet
  \/ Prewarm
  \/ FanOut
  \/ SoftWake
  \/ GraceWake
  \/ HardWake
  \/ ConductorDone
  \/ CacheSet

InitLive ==
  /\ Init
  /\ cfg.committee \in {<<1>>, <<1, 1>>}
  /\ cfg.conductor = 1

NextLive ==
  \/ Next
  \/ ForeignCall

Fairness ==
  /\ WF_vars(VoteStep)
  /\ WF_vars(Tick)
  /\ \A t \in Tasks : WF_vars(TaskStep(t))

\* The same votes with no fairness assumed.
SpecContended == InitLive /\ [][NextLive]_vars

SpecLive == InitLive /\ [][NextLive]_vars /\ Fairness

\* C38: every call of vote eventually returns an outcome or raises.
C38_VoteTerminates ==
  (vpc \notin {"idle", "returned", "raised"}) ~> (vpc \in {"returned", "raised"})

\* The vote returned the synthesis of its heavy conductor, which took the
\* gate after the heavy member that was cancelled at CLOSED and after the
\* heavy call of the concurrent vote.
C38_Witness ==
  /\ vpc = "returned" /\ out.status = "ok"
  /\ HeavyTask(Conductor) /\ pc[Conductor] = "done"
  /\ HeavyTask(1) /\ pc[1] = "cancelled"
  /\ HeavyTask(Foreign) /\ pc[Foreign] = "done"

(***************************************************************************)
(* chunk_text, of core/utils/chunkers.py and the fallback of               *)
(* scripts/ingest.py, one iteration of the while loop per step.  The text  *)
(* is given by its length; a chunk is the slice [start, end).              *)
(***************************************************************************)
MaxText == 4
MaxChunkChars == 3
MaxOverlap == 3
MaxIter == 6

ChunkDefs == {"chunkers", "ingest"}

\* start = max(end - overlap, start + 1)    (core/utils/chunkers.py)
\* start = end - overlap                    (scripts/ingest.py)
next_start(def, start, end, overlap) ==
  IF def = "chunkers" THEN Max(end - overlap, start + 1) ELSE end - overlap

ChunkCall(def, n, chunk_chars, overlap) ==
  [op |-> "chunk_text", def |-> def, n |-> n, chunk_chars |-> chunk_chars, overlap |-> overlap]

\* chunks = []; start = 0; n = len(text)
ChunkEnter ==
  /\ rt_call.op = "chunk_text"
  /\ rt_ret = NoRouterCall
  /\ rt_ret' = [op |-> "loop", start |-> 0, chunks |-> <<>>]
  /\ UNCHANGED <<rt_call, gateVars, genVars, voteVars, semVars, appVars>>

\* One evaluation of `while start < n` and of the body of the loop.
ChunkIterate ==
  /\ rt_call.op = "chunk_text"
  /\ rt_ret.op = "loop"
  /\ Len(rt_ret.chunks) < MaxIter
  /\ LET start == rt_ret.start
         end == Min(rt_call.n, start + rt_call.chunk_chars)
         chunks == Append(rt_ret.chunks, [start |-> start, end |-> end])
     IN rt_ret' =
          IF ~(start < rt_call.n) THEN [rt_ret EXCEPT !.op = "returned"]
          ELSE IF end = rt_call.n THEN [op |-> "returned", start |-> start, chunks |-> chunks]
          ELSE [op |-> "loop", chunks |-> chunks,
                start |-> next_start(rt_call.def, start, end, rt_call.overlap)]
  /\ UNCHANGED <<rt_call, gateVars, genVars, voteVars, semVars, appVars>>

InitChunk ==
  /\ InitProgram
  /\ cfg.committee = <<1>> /\ cfg.require_heavy /\ cfg.conductor = 1
  /\ rt_ret = NoRouterCall
  /\ \E def \in ChunkDefs, n \in 0..MaxText, c \in 1..MaxChunkChars, o \in 0..MaxOverlap :
       rt_call = ChunkCall(def, n, c, o)

NextChunk ==
  \/ ChunkEnter
  \/ ChunkIterate

SpecChunk == InitChunk /\ [][NextChunk]_vars

\* The chunks cover the text from offset 0 to its end, with no gap.
Covers(chunks, n) ==
  IF n = 0 THEN chunks = <<>>
  ELSE /\ chunks # <<>>
       /\ chunks[1].start = 0
       /\ chunks[Len(chunks)].end = n
       /\ \A i \in 1..(Len(chunks) - 1) : chunks[i + 1].start <= chunks[i].end

\* C40: chunk_text terminates in both definitions: the start offset strictly
\* increases from one iteration to the next, so that the loop is left after
\* at most len(text) iterations, and the chunks returned cover the whole
\* text.
C40_ChunkTerminates ==
  /\ [](rt_ret.op = "loop" => Len(rt_ret.chunks) <= rt_call.n)
  /\ [](rt_ret.op = "returned" => Covers(rt_ret.chunks, rt_call.n))
  /\ [][(rt_ret.op = "loop" /\ rt_ret'.op = "loop") => rt_ret'.start > rt_ret.start]_vars

(***************************************************************************)
(* mmr of core/memory/memory_fusion.py.  The diversity factor is counted   *)
(* in halves, the embeddings are vectors of norm 5, so that a cosine is a  *)
(* number of 25ths, and the value of a candidate is compared in units of   *)
(* 1 / (2 * RelDen * 25).                                                  *)
(***************************************************************************)
MaxCand == 3
MaxScore == 3
DiversityHalves == 0..2
Vectors == {<<5, 0>>, <<0, 5>>, <<3, 4>>}
NormSq == 25
MinusInfinity == -1000000

\* float(np.dot(a, b) / (na * nb)), in 25ths
cosine(a, b) == a[1] * b[1] + a[2] * b[2]

SetMin(S) == CHOOSE x \in S : \A y \in S : x <= y
SetMax(S) == CHOOSE x \in S : \A y \in S : x >= y

\* candidates[k]["rel"] = (score - mn) / (mx - mn), or 0.5 when all the
\* scores are equal: numerator and denominator.
RelDen(scores) ==
  LET S == {scores[k] : k \in DOMAIN scores}
  IN IF SetMax(S) - SetMin(S) > 0 THEN SetMax(S) - SetMin(S) ELSE 2

RelNum(scores, key) ==
  LET S == {scores[k] : k \in DOMAIN scores}
  IN IF SetMax(S) - SetMin(S) > 0 THEN scores[key] - SetMin(S) ELSE 1

\* div = 0.0 if not selected else max(cosine(embeddings[key], embeddings[s]))
div_of(emb, key, selected) ==
  IF selected = <<>> THEN 0
  ELSE SetMax({cosine(emb[key], emb[selected[i]]) : i \in 1..Len(selected)})

\* val = (1 - diversity) * rel - diversity * div
val_of(c, key, selected) ==
  (2 - c.diversity) * RelNum(c.scores, key) * NormSq
    - c.diversity * div_of(c.embeddings, key, selected) * RelDen(c.scores)

\* for key in remaining: ... if val > best_val: best_key, best_val = key, val
\* `keys` is the iteration order of the set remaining.
RECURSIVE best_of(_, _, _, _, _)
best_of(c, keys, selected, best_key, best_val) ==
  IF keys = <<>> THEN best_key
  ELSE LET key == Head(keys)
           val == val_of(c, key, selected)
       IN IF val > best_val
          THEN best_of(c, Tail(keys), selected, key, val)
          ELSE best_of(c, Tail(keys), selected, best_key, best_val)

\* while remaining and len(selected) < top_k
RECURSIVE mmr_loop(_, _, _)
mmr_loop(c, keys, selected) ==
  IF keys = <<>> \/ ~(Len(selected) < c.top_k) THEN selected
  ELSE LET best_key == best_of(c, keys, selected, None, MinusInfinity)
       IN mmr_loop(c, SelectSeq(keys, LAMBDA k : k # best_key), Append(selected, best_key))

mmr(c) == mmr_loop(c, c.order, <<>>)

MmrCall(scores, emb, diversity, top_k, order) ==
  [op |-> "mmr", scores |-> scores, embeddings |-> emb, diversity |-> diversity,
   top_k |-> top_k, order |-> order]

Mmr ==
  /\ rt_call.op = "mmr"
  /\ rt_ret = NoRouterCall
  /\ rt_ret' = [op |-> "mmr", selected |-> mmr(rt_call)]
  /\ UNCHANGED <<rt_call, gateVars, genVars, voteVars, semVars, appVars>>

\* The candidate ids, their scores and embeddings, and the iteration order
\* of the set of the candidate ids.
InitMmr ==
  /\ InitProgram
  /\ cfg.committee = <<1>> /\ cfg.require_heavy /\ cfg.conductor = 1
  /\ rt_ret = NoRouterCall
  /\ \E n \in 1..MaxCand :
       \E scores \in [1..n -> 1..MaxScore], emb \in [1..n -> Vectors],
          diversity \in DiversityHalves, top_k \in 1..MaxCand, order \in Orders(1..n) :
            rt_call = MmrCall(scores, emb, diversity, top_k, order)

NextMmr == Mmr

SpecMmr == InitMmr /\ [][NextMmr]_vars

\* C34: the first candidate selected has the highest normalized relevance,
\* for every diversity factor; every later pick has the highest value
\* (1 - lambda) * rel - lambda * max cosine among the candidates left; the
\* result holds min(top_k, number of candidates) distinct candidate ids.
C34_MMR ==
  rt_ret.op = "mmr" =>
    LET c == rt_call
        sel == rt_ret.selected
        ids == DOMAIN c.scores
    IN /\ Len(sel) = Min(c.top_k, Cardinality(ids))
       /\ \A i \in 1..Len(sel) : sel[i] \in ids
       /\ \A i, j \in 1..Len(sel) : i # j => sel[i] # sel[j]
       /\ \A k \in ids : RelNum(c.scores, k) <= RelNum(c.scores, sel[1])
       /\ \A i \in 2..Len(sel) :
            LET before == SubSeq(sel, 1, i - 1)
            IN \A k \in ids \ {sel[j] : j \in 1..(i - 1)} :
                 val_of(c, k, before) <= val_of(c, sel[i], before)

(***************************************************************************)
(* The memories table of the companion: memory_ingest, memory_forget and   *)
(* memory_purge.  Time is counted in days.  mem.seq is the AUTOINCREMENT   *)
(* sequence of the table, mem.vaulted the ids ingested with vault=true and *)
(* mem.acted the endpoints that deleted a row.                             *)
(***************************************************************************)
MaxMemories == 3
MaxDays == 2
TtlChoices == {0, 1}
StoredHints == {<<>>, <<"P", "x">>}
ForgetHints == {<<>>, <<"p">>, <<"X">>, <<"q">>}

MemVars == <<gateVars, genVars, voteVars, semVars, routerVars, cv>>

\* WHERE LOWER(project_hint) LIKE '%' || lower(hint) || '%', for every row.
forget_where_any_vault(r, hint) == Contains(lower(r.project_hint), lower(hint))

\* WHERE vault=0 AND LOWER(project_hint) LIKE '%' || lower(hint) || '%'
forget_where(r, hint) ==
  r.vault = 0 /\ Contains(lower(r.project_hint), lower(hint))

\* The rows memory_purge puts in to_delete.
purge_where(r, now) ==
  /\ r.vault # 1
  /\ r.created_at + r.ttl_days < now

\* INSERT INTO memories(...) VALUES(..., now, int(vault), consent)
MemoryIngest ==
  /\ mem.seq < MaxMemories
  /\ \E ttl_days \in TtlChoices, vault \in BOOLEAN, project_hint \in StoredHints :
       LET id == mem.seq + 1
           row == [id |-> id, project_hint |-> project_hint, ttl_days |-> ttl_days,
                   created_at |-> mem.now, vault |-> IF vault THEN 1 ELSE 0]
       IN mem' = [mem EXCEPT !.rows = Append(@, row), !.seq = id,
                             !.vaulted = IF vault THEN @ \cup {id} ELSE @]
  /\ UNCHANGED MemVars

\* DELETE FROM memories WHERE vault=0 AND LOWER(project_hint) LIKE ?
MemoryForget ==
  /\ \E project_hint \in ForgetHints :
       LET kept == SelectSeq(mem.rows, LAMBDA r : ~forget_where(r, project_hint))
       IN mem' = [mem EXCEPT !.rows = kept,
                             !.acted = IF Len(kept) < Len(mem.rows) THEN @ \cup {"forget"} ELSE @]
  /\ UNCHANGED MemVars

\* The rows that are not vaults and whose created_at + ttl_days is past are
\* deleted by id.
MemoryPurge ==
  /\ LET kept == SelectSeq(mem.rows, LAMBDA r : ~purge_where(r, mem.now))
     IN mem' = [mem EXCEPT !.rows = kept,
                           !.acted = IF Len(kept) < Len(mem.rows) THEN @ \cup {"purge"} ELSE @]
  /\ UNCHANGED MemVars

\* A day passes.
DayPasses ==
  /\ mem.now < MaxDays
  /\ mem' = [mem EXCEPT !.now = @ + 1]
  /\ UNCHANGED MemVars

InitMemory ==
  /\ Init
  /\ cfg.committee = <<1>> /\ cfg.require_heavy /\ cfg.conductor = 1

NextMemory ==
  \/ MemoryIngest
  \/ MemoryForget
  \/ MemoryPurge
  \/ DayPasses

SpecMemory == InitMemory /\ [][NextMemory]_vars

RowIds(rows) == {rows[i].id : i \in 1..Len(rows)}
RowOf(rows, id) == rows[CHOOSE i \in 1..Len(rows) : rows[i].id = id]

\* C39: vault memories are never deleted: every memory ingested with
\* vault=true is still stored, as a vault, and a step only deletes rows
\* with vault=0.
C39_VaultKept ==
  /\ [](\A id \in mem.vaulted :
          id \in RowIds(mem.rows) /\ RowOf(mem.rows, id).vault = 1)
  /\ [][\A id \in RowIds(mem.rows) \ RowIds(mem'.rows) :
          RowOf(mem.rows, id).vault = 0]_vars

\* forget and purge have both deleted rows, and a vault whose ttl is past
\* and whose project_hint matches the hints forgotten is still stored.
C39_Witness ==
  /\ mem.acted = {"forget", "purge"}
  /\ \E i \in 1..Len(mem.rows) :
       /\ mem.rows[i].vault = 1
       /\ mem.rows[i].created_at + mem.rows[i].ttl_days < mem.now
       /\ mem.rows[i].project_hint = <<"P", "x">>

====
